---------------------------- MODULE Spec2Model ----------------------------
(***************************************************************************)
(* A model of granola-mcp-server: the double-JSON cache loader, the        *)
(* meeting extractor (parser.py), the date helpers (utils/date_parser.py), *)
(* the tool functions (tools/meetings.py, tools/status.py), the Markdown   *)
(* renderer and the local document source (sources/local_file.py).         *)
(*                                                                         *)
(* Data representation.                                                    *)
(*  - a Python str is a sequence of one-character strings;                 *)
(*  - a decoded JSON value is a tagged record (JNull, JBool, JNum, JStr,   *)
(*    JList, JDict); a dict keeps its keys in insertion order, as Python   *)
(*    dicts do;                                                            *)
(*  - a text that is parsed as JSON is either arbitrary text (a str) or    *)
(*    the serialisation of a JSON value (JText);                           *)
(*  - a call either returns (Ret) or raises (Raise) an exception record.   *)
(***************************************************************************)
EXTENDS Integers, Sequences, FiniteSets, TLC

VARIABLES
    file,    \* the content of the cache file at parser._cache_path
    cache,   \* GranolaParser._cache: NoCache or a CacheState
    now,     \* the wall clock read by datetime.now
    last,    \* the last completed call: its arguments and its outcome
    seen,    \* history: the first get_meetings result on the memoized snapshot
    threads, \* the calls in progress, one per thread (concurrent runs only)
    client   \* a client following next_cursor: what it asked and received

vars == <<file, cache, now, last, seen, threads, client>>

(***************************************************************************)
(* Bounds of the model.                                                    *)
(***************************************************************************)
MaxTime == 1

(***************************************************************************)
(* Characters and Python str operations.                                   *)
(***************************************************************************)
Digits == <<"0", "1", "2", "3", "4", "5", "6", "7", "8", "9">>
UpperCase == <<"A", "B", "C", "D", "E", "F", "G", "H", "I", "J", "K", "L", "M",
               "N", "O", "P", "Q", "R", "S", "T", "U", "V", "W", "X", "Y", "Z">>
LowerCase == <<"a", "b", "c", "d", "e", "f", "g", "h", "i", "j", "k", "l", "m",
               "n", "o", "p", "q", "r", "s", "t", "u", "v", "w", "x", "y", "z">>

\* The characters the model uses, in code point order ("BQ" stands for the
\* backquote, U+0060, and "ARROW" for the arrow U+2192 of markdown_export.py:41,
\* which a TLA+ string cannot hold).
CharOrder == <<"\n", " ", "\"", "#", "'", "+", ",", "-", ".">> \o Digits \o <<":", "<", ">">>
             \o UpperCase \o <<"[", "\\", "]", "_", "BQ">> \o LowerCase
             \o <<"{", "}", "ARROW">>

\* a local name for a value: Bind(e, LAMBDA x : body) is body with x = e
Bind(value, Body(_)) == Body(value)

Min(a, b) == IF a < b THEN a ELSE b
Max(a, b) == IF a > b THEN a ELSE b

SeqIndex(seq, x) == CHOOSE i \in 1..Len(seq) : seq[i] = x
InSeq(seq, x) == \E i \in 1..Len(seq) : seq[i] = x

Ord(c) == SeqIndex(CharOrder, c)
IsDigit(c) == InSeq(Digits, c)
DigitVal(c) == SeqIndex(Digits, c) - 1
DigitChar(n) == Digits[n + 1]

\* str.lower on one character, then on a str
LowerChar(c) == IF InSeq(UpperCase, c) THEN LowerCase[SeqIndex(UpperCase, c)] ELSE c
StrLower(s) == [i \in 1..Len(s) |-> LowerChar(s[i])]

\* s < t on Python strs: lexicographic by code point
StrLess(s, t) ==
    \E i \in 1..(Len(t)) :
        /\ \A j \in 1..(i - 1) : j <= Len(s) /\ s[j] = t[j]
        /\ \/ i = Len(s) + 1
           \/ i <= Len(s) /\ Ord(s[i]) < Ord(t[i])

\* sub in s
StrContains(s, sub) ==
    \E i \in 0..(Len(s) - Len(sub)) :
        \A j \in 1..Len(sub) : s[i + j] = sub[j]

StrEndsWith(s, suffix) ==
    /\ Len(s) >= Len(suffix)
    /\ \A j \in 1..Len(suffix) : s[Len(s) - Len(suffix) + j] = suffix[j]

IsSpace(c) == c \in {" ", "\n"}

\* str.strip
RECURSIVE LStrip(_)
LStrip(s) == IF s # <<>> /\ IsSpace(Head(s)) THEN LStrip(Tail(s)) ELSE s
RECURSIVE RStrip(_)
RStrip(s) ==
    IF s # <<>> /\ IsSpace(s[Len(s)]) THEN RStrip(SubSeq(s, 1, Len(s) - 1)) ELSE s
StrStrip(s) == RStrip(LStrip(s))

\* sep.join(parts)
RECURSIVE StrJoin(_, _)
StrJoin(sep, parts) ==
    IF parts = <<>> THEN <<>>
    ELSE IF Len(parts) = 1 THEN parts[1]
    ELSE parts[1] \o sep \o StrJoin(sep, Tail(parts))

\* the decimal digits of a natural number, and back
RECURSIVE NatToStr(_)
NatToStr(n) == IF n < 10 THEN <<DigitChar(n)>> ELSE NatToStr(n \div 10) \o <<DigitChar(n % 10)>>
RECURSIVE StrToNat(_)
StrToNat(s) ==
    IF s = <<>> THEN 0 ELSE 10 * StrToNat(SubSeq(s, 1, Len(s) - 1)) + DigitVal(s[Len(s)])
IsDecimal(s) == s # <<>> /\ \A i \in 1..Len(s) : IsDigit(s[i])

\* f"{n:0<w>d}"
RECURSIVE ZeroPad(_, _)
ZeroPad(s, w) == IF Len(s) >= w THEN s ELSE ZeroPad(<<"0">> \o s, w)
Pad2(n) == ZeroPad(NatToStr(n), 2)
Pad4(n) == ZeroPad(NatToStr(n), 4)

(***************************************************************************)
(* Decoded JSON values (what json.load returns) and the Python operations  *)
(* the code applies to them.                                               *)
(***************************************************************************)
Million == 1000 * 1000

JNull == [t |-> "null"]
JBool(b) == [t |-> "bool", b |-> b]
\* an int; hi * 10^6 + lo, so that epoch milliseconds fit TLC's integers
JBig(hi, lo) == [t |-> "num", hi |-> hi, lo |-> lo]
JNum(n) == JBig(n \div Million, n % Million)
JStr(s) == [t |-> "str", s |-> s]
\* a str that holds the serialisation (json.dumps) of the value v
JText(v) == [t |-> "jsontext", val |-> v]
JList(items) == [t |-> "list", items |-> items]
\* a dict: its keys (strs) in insertion order and their values
JDict(ks, vs) == [t |-> "dict", ks |-> ks, vs |-> vs]
EmptyDict == JDict(<<>>, <<>>)
EmptyList == JList(<<>>)

\* isinstance(v, ...)
IsNone(v) == v.t = "null"
IsStr(v) == v.t \in {"str", "jsontext"}
IsNumber(v) == v.t \in {"num", "bool"}
IsList(v) == v.t = "list"
IsDict(v) == v.t = "dict"

\* bool(v): the truth value Python gives v in `if v`, `v or w`, `v and w`
Truthy(v) ==
    CASE v.t = "null" -> FALSE
      [] v.t = "bool" -> v.b
      [] v.t = "num" -> v.hi # 0 \/ v.lo # 0
      [] v.t = "str" -> v.s # <<>>
      [] v.t = "jsontext" -> TRUE
      [] v.t = "list" -> v.items # <<>>
      [] v.t = "dict" -> v.ks # <<>>

\* v or w
PyOr(v, w) == IF Truthy(v) THEN v ELSE w

\* hash(v) is defined: lists and dicts are unhashable (TypeError in a set or
\* as a dict key)
Hashable(v) == v.t \notin {"list", "dict"}

\* key in d, d.get(key, default), d.get(key), list(d.keys()), len(d)
HasKey(d, k) == InSeq(d.ks, k)
GetOr(d, k, default) == IF HasKey(d, k) THEN d.vs[SeqIndex(d.ks, k)] ELSE default
Get(d, k) == GetOr(d, k, JNull)
KeyList(d) == JList([i \in 1..Len(d.ks) |-> JStr(d.ks[i])])
DictLen(d) == Len(d.ks)

\* d[k] = v: an existing key keeps its place, a new key goes last
DictSet(d, k, v) ==
    IF HasKey(d, k)
    THEN JDict(d.ks, [d.vs EXCEPT ![SeqIndex(d.ks, k)] = v])
    ELSE JDict(Append(d.ks, k), Append(d.vs, v))

(***************************************************************************)
(* Outcomes of a call: a returned value or a raised exception.             *)
(* errors.py: an AppError carries a code, a message and optional details;  *)
(* any other exception (ValueError, TypeError, ...) carries no code.       *)
(* Messages are kept as labels (the source's text without interpolation).  *)
(***************************************************************************)
Ret(v) == [ok |-> TRUE, val |-> v]
Raise(e) == [ok |-> FALSE, err |-> e]

AppError(cls, code, message, details) ==
    [exc |-> cls, code |-> code, message |-> message, details |-> details]
BadRequestError(message, details) == AppError("BadRequestError", "BAD_REQUEST", message, details)
NotFoundError(message, details) == AppError("NotFoundError", "NOT_FOUND", message, details)
GranolaParseError(message, details) == AppError("GranolaParseError", "IO_ERROR", message, details)
\* an exception that is no AppError
BuiltinError(cls) == [exc |-> cls, code |-> "", message |-> "", details |-> JNull]

ErrorCodes == {"BAD_REQUEST", "NOT_FOUND", "IO_ERROR", "TIMEOUT"}

(***************************************************************************)
(* Calendar arithmetic of datetime (proleptic Gregorian calendar).         *)
(***************************************************************************)
IsLeap(y) == (y % 4 = 0 /\ y % 100 # 0) \/ y % 400 = 0
DaysInMonth(y, m) ==
    IF m = 2 THEN (IF IsLeap(y) THEN 29 ELSE 28)
    ELSE IF m \in {4, 6, 9, 11} THEN 30 ELSE 31

\* days before 1 January of year y, counted from 1 January of year 1
DaysBeforeYear(y) ==
    LET p == y - 1 IN p * 365 + p \div 4 - p \div 100 + p \div 400
RECURSIVE DaysBeforeMonth(_, _)
DaysBeforeMonth(y, m) ==
    IF m = 1 THEN 0 ELSE DaysBeforeMonth(y, m - 1) + DaysInMonth(y, m - 1)
\* date.toordinal(): 1 for 0001-01-01
ToOrdinal(y, m, d) == DaysBeforeYear(y) + DaysBeforeMonth(y, m) + d
EpochOrdinal == ToOrdinal(1970, 1, 1)
MaxYear == 9999          \* datetime.MAXYEAR

\* date.fromordinal(n)
YearOfOrdinal(n) ==
    CHOOSE y \in ((n \div 366) - 1)..((n \div 365) + 1) :
        y >= 1 /\ DaysBeforeYear(y) < n /\ n <= DaysBeforeYear(y + 1)
FromOrdinal(n) ==
    Bind(YearOfOrdinal(n), LAMBDA y :
    LET doy == n - DaysBeforeYear(y)
        m == CHOOSE k \in 1..12 :
                 DaysBeforeMonth(y, k) < doy /\ doy <= DaysBeforeMonth(y, k) + DaysInMonth(y, k)
    IN [y |-> y, mo |-> m, d |-> doy - DaysBeforeMonth(y, m)])

\* date.isoweekday(): 1 = Monday .. 7 = Sunday (0001-01-01 is a Monday)
IsoWeekday(n) == ((n - 1) % 7) + 1
\* the ordinal of the Monday that starts ISO week 1 of year y
IsoWeek1Monday(y) ==
    LET first == ToOrdinal(y, 1, 1)
        wd == (first + 6) % 7            \* 0 = Monday
        monday == first - wd
    IN IF wd > 3 THEN monday + 7 ELSE monday
\* date.isocalendar(): ISO year and week of the day with ordinal n
IsoCalendar(n) ==
    Bind(YearOfOrdinal(n), LAMBDA y :
    Bind(IF n < IsoWeek1Monday(y) THEN y - 1
         ELSE IF n >= IsoWeek1Monday(y + 1) THEN y + 1 ELSE y, LAMBDA y1 :
         [year |-> y1, week |-> ((n - IsoWeek1Monday(y1)) \div 7) + 1]))

(***************************************************************************)
(* utils/date_parser.py.  A datetime is a record of its fields; tz says    *)
(* whether it is aware, off and offus are its UTC offset in seconds and    *)
(* microseconds (of one sign), us its microseconds.                        *)
(*                                                                         *)
(* datetime.fromisoformat is modelled as CPython 3.11 parses: calendar and *)
(* week dates, with or without separators, one separator character, the   *)
(* time as HH[[:]MM[[:]SS]] with a fraction, and Z or a signed offset.     *)
(***************************************************************************)
DateTime(y, mo, d, h, mi, s, us, tz, off) ==
    [y |-> y, mo |-> mo, d |-> d, h |-> h, mi |-> mi, s |-> s, us |-> us,
     tz |-> tz, off |-> off, offus |-> 0]

\* the character at position i; "EOS" past the end of the text
At(s, i) == IF i >= 1 /\ i <= Len(s) THEN s[i] ELSE "EOS"
AllDigits(s, from, to) == \A i \in from..to : IsDigit(At(s, i))
NumAt(s, from, to) == IF to < from THEN 0 ELSE StrToNat(SubSeq(s, from, to))

\* where the date ends: the number of characters of the date part
FindSeparator(s) ==
    IF Len(s) = 7 THEN 7
    ELSE IF At(s, 5) = "-"
    THEN (IF At(s, 6) = "W"
          THEN (IF Len(s) < 8 THEN -1
                ELSE IF Len(s) > 8 /\ At(s, 9) = "-"
                THEN (IF Len(s) = 9 THEN -1
                      ELSE IF Len(s) > 10 /\ IsDigit(At(s, 11)) THEN 8
                      ELSE 10)
                ELSE 8)
          ELSE 10)
    ELSE IF At(s, 5) = "W"
    THEN LET stops == {j \in 8..(Len(s) + 1) : ~IsDigit(At(s, j))}
             idx == (CHOOSE j \in stops : \A k \in stops : j <= k) - 1
         IN IF idx < 9 THEN idx ELSE IF idx % 2 = 0 THEN 7 ELSE 8
    ELSE 8

\* the day of ISO year y, week w, weekday d; year 0 when there is none
WeekDate(y, w, d) ==
    Bind(IsoWeek1Monday(y) + (w - 1) * 7 + d - 1, LAMBDA n :
    LET first_weekday == (ToOrdinal(y, 1, 1) + 6) % 7
        long == first_weekday = 3 \/ (first_weekday = 2 /\ IsLeap(y))
    IN IF w < 1 \/ w > 53 \/ (w = 53 /\ ~long) \/ d < 1 \/ d > 7
          \/ n < 1 \/ n > DaysBeforeYear(MaxYear + 1)
       THEN [y |-> 0, mo |-> 1, d |-> 1]
       ELSE FromOrdinal(n))

NoDate == [y |-> 0, mo |-> 1, d |-> 1]

\* the date in s[1..len]; year 0 when the text is no date
ParseIsoDate(s, len) ==
    IF ~AllDigits(s, 1, 4) THEN NoDate
    ELSE
      LET year == NumAt(s, 1, 4)
          uses_separator == At(s, 5) = "-"
          p == IF uses_separator THEN 6 ELSE 5
      IN IF At(s, p) = "W"
         THEN (IF ~AllDigits(s, p + 1, p + 2) THEN NoDate
               ELSE IF p + 2 < len
               THEN (IF uses_separator /\ At(s, p + 3) # "-" THEN NoDate
                     ELSE LET q == IF uses_separator THEN p + 4 ELSE p + 3
                          IN IF ~IsDigit(At(s, q)) THEN NoDate
                             ELSE WeekDate(year, NumAt(s, p + 1, p + 2), NumAt(s, q, q)))
               ELSE WeekDate(year, NumAt(s, p + 1, p + 2), 1))
         ELSE IF ~AllDigits(s, p, p + 1) THEN NoDate
         ELSE IF uses_separator /\ At(s, p + 2) # "-" THEN NoDate
         ELSE LET q == IF uses_separator THEN p + 3 ELSE p + 2
              IN IF ~AllDigits(s, q, q + 1) THEN NoDate
                 ELSE [y |-> year, mo |-> NumAt(s, p, p + 1), d |-> NumAt(s, q, q + 1)]

\* the outcome of reading HH[[:]MM[[:]SS]][.ffffff]: rv is 0 at the end of
\* the text, 1 when text follows, negative when the text is malformed
TimeRead(rv, vals, us) ==
    [rv |-> rv,
     h |-> IF Len(vals) >= 1 THEN vals[1] ELSE 0,
     m |-> IF Len(vals) >= 2 THEN vals[2] ELSE 0,
     s |-> IF Len(vals) >= 3 THEN vals[3] ELSE 0,
     us |-> us]

Pow10(n) == IF n = 0 THEN 1 ELSE IF n = 1 THEN 10 ELSE IF n = 2 THEN 100
            ELSE IF n = 3 THEN 1000 ELSE IF n = 4 THEN 10000 ELSE IF n = 5 THEN 100000
            ELSE Million

\* the fraction at s[p..pend-1]: six digits count, further digits are skipped
Fraction(s, p, pend, vals) ==
    LET to_parse == IF pend - p >= 6 THEN 6 ELSE pend - p
    IN IF ~AllDigits(s, p, p + to_parse - 1) THEN TimeRead(-3, vals, 0)
       ELSE LET stops == {j \in (p + to_parse)..(Len(s) + 1) : ~IsDigit(At(s, j))}
                stop == CHOOSE j \in stops : \A k \in stops : j <= k
            IN TimeRead(IF At(s, stop) # "EOS" THEN 1 ELSE 0, vals,
                        NumAt(s, p, p + to_parse - 1) * Pow10(6 - to_parse))

RECURSIVE TimeFields(_, _, _, _, _, _)
TimeFields(s, p, pend, i, has_separator, vals) ==
    IF ~AllDigits(s, p, p + 1) THEN TimeRead(-3, vals, 0)
    ELSE LET v == Append(vals, NumAt(s, p, p + 1))
             c == At(s, p + 2)
             q == p + 3
             sep == IF i = 0 THEN c = ":" ELSE has_separator
         IN IF q >= pend THEN TimeRead(IF c # "EOS" THEN 1 ELSE 0, v, 0)
            ELSE IF sep /\ c = ":"
            THEN (IF i = 2 THEN Fraction(s, q, pend, v)
                  ELSE TimeFields(s, q, pend, i + 1, sep, v))
            ELSE IF c \in {".", ","} THEN Fraction(s, q, pend, v)
            ELSE IF ~sep
            THEN (IF i = 2 THEN Fraction(s, q - 1, pend, v)
                  ELSE TimeFields(s, q - 1, pend, i + 1, sep, v))
            ELSE TimeRead(-4, v, 0)

\* the time and offset in s[p..]; a datetime on day date, or ValueError
TzPos(s, p) ==
    LET marks == {j \in p..Len(s) : s[j] \in {"Z", "+", "-"}}
    IN IF marks = {} THEN 0 ELSE CHOOSE j \in marks : \A k \in marks : j <= k

ParseIsoTime(s, p, date) ==
    Bind(TzPos(s, p), LAMBDA tzpos :
    Bind(TimeFields(s, p, IF tzpos = 0 THEN Max(Len(s), p) + 1 ELSE tzpos, 0, TRUE, <<>>),
         LAMBDA time :
    Bind(DateTime(date.y, date.mo, date.d, time.h, time.m, time.s, time.us, FALSE, 0),
         LAMBDA naive :
       IF time.rv < 0 \/ time.h > 23 \/ time.m > 59 \/ time.s > 59
       THEN Raise(BuiltinError("ValueError"))
       ELSE IF tzpos = 0
       THEN (IF time.rv = 1 THEN Raise(BuiltinError("ValueError")) ELSE Ret(naive))
       ELSE IF s[tzpos] = "Z"
       THEN (IF At(s, tzpos + 1) # "EOS" THEN Raise(BuiltinError("ValueError"))
             ELSE Ret([naive EXCEPT !.tz = TRUE]))
       ELSE Bind(TimeFields(s, tzpos + 1, Len(s) + 1, 0, TRUE, <<>>), LAMBDA o :
            LET sign == IF s[tzpos] = "-" THEN -1 ELSE 1
                secs == o.h * 3600 + o.m * 60 + o.s
            IN IF o.rv # 0 \/ secs >= 86400 THEN Raise(BuiltinError("ValueError"))
               \* an offset of no whole second is timezone.utc, whatever
               \* its fraction (tzinfo_from_isoformat_results)
               ELSE Ret([naive EXCEPT !.tz = TRUE, !.off = sign * secs,
                                      !.offus = IF secs = 0 THEN 0
                                                ELSE sign * o.us])))))

FromIsoFormat(s) ==
    Bind(FindSeparator(s), LAMBDA sep :
    Bind(IF Len(s) < 7 \/ sep < 0 THEN NoDate ELSE ParseIsoDate(s, sep), LAMBDA date :
       IF \/ date.y < 1 \/ date.mo < 1 \/ date.mo > 12 \/ date.d < 1
          \/ date.d > DaysInMonth(date.y, IF date.mo \in 1..12 THEN date.mo ELSE 1)
       THEN Raise(BuiltinError("ValueError"))
       ELSE IF Len(s) > sep THEN ParseIsoTime(s, sep + 2, date)
       ELSE Ret(DateTime(date.y, date.mo, date.d, 0, 0, 0, 0, FALSE, 0))))

\* datetime.isoformat()
IsoFormat(dt) ==
    Pad4(dt.y) \o <<"-">> \o Pad2(dt.mo) \o <<"-">> \o Pad2(dt.d) \o <<"T">>
    \o Pad2(dt.h) \o <<":">> \o Pad2(dt.mi) \o <<":">> \o Pad2(dt.s)
    \o (IF dt.us # 0 THEN <<".">> \o ZeroPad(NatToStr(dt.us), 6) ELSE <<>>)
    \o (IF ~dt.tz THEN <<>>
        ELSE LET neg == dt.off < 0 \/ dt.offus < 0
                 a == IF neg THEN -dt.off ELSE dt.off
                 u == IF neg THEN -dt.offus ELSE dt.offus
             IN <<IF neg THEN "-" ELSE "+">> \o Pad2(a \div 3600) \o <<":">>
                \o Pad2((a % 3600) \div 60)
                \o (IF a % 60 # 0 \/ u # 0 THEN <<":">> \o Pad2(a % 60) ELSE <<>>)
                \o (IF u # 0 THEN <<".">> \o ZeroPad(NatToStr(u), 6) ELSE <<>>))

\* _replace_z_suffix
ReplaceZSuffix(value) ==
    IF StrEndsWith(value, <<"Z">>)
    THEN SubSeq(value, 1, Len(value) - 1) \o <<"+", "0", "0", ":", "0", "0">>
    ELSE value

\* parse_iso8601: a naive datetime is taken as UTC
ParseIso8601(value) ==
    Bind(FromIsoFormat(ReplaceZSuffix(value)), LAMBDA r :
       IF ~r.ok THEN r
       ELSE IF ~r.val.tz THEN Ret([r.val EXCEPT !.tz = TRUE, !.off = 0]) ELSE r)

\* ensure_iso8601
EnsureIso8601(value) ==
    Bind(ParseIso8601(value), LAMBDA r : IF r.ok THEN Ret(IsoFormat(r.val)) ELSE r)

\* dt.astimezone(timezone.utc) of an aware datetime: the ordinal of its UTC
\* day
UtcDay(dt) ==
    LET micros == dt.us - dt.offus
        borrow == IF micros < 0 THEN -1 ELSE IF micros >= Million THEN 1 ELSE 0
        seconds == dt.h * 3600 + dt.mi * 60 + dt.s - dt.off + borrow
        shift == IF seconds < 0 THEN -1 ELSE IF seconds >= 86400 THEN 1 ELSE 0
    IN ToOrdinal(dt.y, dt.mo, dt.d) + shift

\* to_date_key
ToDateKey(value, week) ==
    Bind(ParseIso8601(value), LAMBDA r :
       IF ~r.ok THEN r
       ELSE Bind(UtcDay(r.val), LAMBDA n :
               IF n < 1 \/ n >= DaysBeforeYear(MaxYear + 1) + 1
               THEN Raise(BuiltinError("OverflowError"))
               ELSE IF week
               THEN Bind(IsoCalendar(n), LAMBDA c :
                         Ret(NatToStr(c.year) \o <<"-", "W">> \o Pad2(c.week)))
               ELSE Bind(FromOrdinal(n), LAMBDA c :
                         Ret(Pad4(c.y) \o <<"-">> \o Pad2(c.mo) \o <<"-">> \o Pad2(c.d)))))

(***************************************************************************)
(* The str literals of the source.                                         *)
(***************************************************************************)
s_state == <<"s", "t", "a", "t", "e">>
s_documents == <<"d", "o", "c", "u", "m", "e", "n", "t", "s">>
s_meetingsMetadata == <<"m", "e", "e", "t", "i", "n", "g", "s", "M", "e", "t", "a", "d", "a", "t", "a">>
s_documentPanels == <<"d", "o", "c", "u", "m", "e", "n", "t", "P", "a", "n", "e", "l", "s">>
s_documentLists == <<"d", "o", "c", "u", "m", "e", "n", "t", "L", "i", "s", "t", "s">>
s_documentListsMetadata == <<"d", "o", "c", "u", "m", "e", "n", "t", "L", "i", "s", "t", "s", "M", "e", "t", "a", "d", "a", "t", "a">>
s_cache == <<"c", "a", "c", "h", "e">>
s_id == <<"i", "d">>
s_title == <<"t", "i", "t", "l", "e">>
s_created_at == <<"c", "r", "e", "a", "t", "e", "d", "_", "a", "t">>
s_people == <<"p", "e", "o", "p", "l", "e">>
s_name == <<"n", "a", "m", "e">>
s_attendees == <<"a", "t", "t", "e", "n", "d", "e", "e", "s">>
s_conference == <<"c", "o", "n", "f", "e", "r", "e", "n", "c", "e">>
s_provider == <<"p", "r", "o", "v", "i", "d", "e", "r">>
s_type == <<"t", "y", "p", "e">>
s_meeting == <<"m", "e", "e", "t", "i", "n", "g">>
s_notes_plain == <<"n", "o", "t", "e", "s", "_", "p", "l", "a", "i", "n">>
s_notes_markdown == <<"n", "o", "t", "e", "s", "_", "m", "a", "r", "k", "d", "o", "w", "n">>
s_overview == <<"o", "v", "e", "r", "v", "i", "e", "w">>
s_summary == <<"s", "u", "m", "m", "a", "r", "y">>
s_original_content == <<"o", "r", "i", "g", "i", "n", "a", "l", "_", "c", "o", "n", "t", "e", "n", "t">>
s_google_meet == <<"g", "o", "o", "g", "l", "e", "_", "m", "e", "e", "t">>
s_zoom == <<"z", "o", "o", "m">>
s_teams == <<"t", "e", "a", "m", "s">>
s_meet == <<"m", "e", "e", "t">>
s_other == <<"o", "t", "h", "e", "r">>
s_Untitled_Meeting == <<"U", "n", "t", "i", "t", "l", "e", "d", " ", "M", "e", "e", "t", "i", "n", "g">>
s_hr == <<"<", "h", "r", ">">>
s_path == <<"p", "a", "t", "h">>
s_reason == <<"r", "e", "a", "s", "o", "n">>
s_outer_keys == <<"o", "u", "t", "e", "r", "_", "k", "e", "y", "s">>
s_inner_keys == <<"i", "n", "n", "e", "r", "_", "k", "e", "y", "s">>
s_inner_type == <<"i", "n", "n", "e", "r", "_", "t", "y", "p", "e">>
s_header == <<"h", "e", "a", "d", "e", "r">>
s_notes == <<"n", "o", "t", "e", "s">>
s_links == <<"l", "i", "n", "k", "s">>
s_None == <<"N", "o", "n", "e">>
s_True == <<"T", "r", "u", "e">>
s_False == <<"F", "a", "l", "s", "e">>
s_null == <<"n", "u", "l", "l">>
s_true == <<"t", "r", "u", "e">>
s_false == <<"f", "a", "l", "s", "e">>
s_day == <<"d", "a", "y">>
s_week == <<"w", "e", "e", "k">>
s_local == <<"l", "o", "c", "a", "l">>
s_remote == <<"r", "e", "m", "o", "t", "e">>
s_stdlib == <<"s", "t", "d", "l", "i", "b">>
s_sqlite == <<"s", "q", "l", "i", "t", "e">>
s_cache_dir == <<"c", "a", "c", "h", "e", "_", "d", "i", "r">>
s_by_period == <<"b", "y", "_", "p", "e", "r", "i", "o", "d">>
s_dict == <<"d", "i", "c", "t">>
s_list == <<"l", "i", "s", "t">>
s_str == <<"s", "t", "r">>
s_int == <<"i", "n", "t">>
s_bool == <<"b", "o", "o", "l">>
s_NoneType == <<"N", "o", "n", "e", "T", "y", "p", "e">>

(***************************************************************************)
(* str(v) and repr(v) of a decoded JSON value, type(v).__name__.           *)
(***************************************************************************)
\* the digits of hi * 10^6 + lo, hi >= 0
DigitsOf(hi, lo) ==
    IF hi = 0 THEN NatToStr(lo) ELSE NatToStr(hi) \o ZeroPad(NatToStr(lo), 6)
\* str(n) of the int n = hi * 10^6 + lo, 0 <= lo < 10^6
NumToStr(v) ==
    IF v.hi >= 0 THEN DigitsOf(v.hi, v.lo)
    ELSE <<"-">> \o (IF v.lo = 0 THEN DigitsOf(0 - v.hi, 0)
                     ELSE DigitsOf(0 - v.hi - 1, Million - v.lo))

\* the characters of s with each one replaced by escape(c)
RECURSIVE Flatten(_)
Flatten(parts) == IF parts = <<>> THEN <<>> ELSE Head(parts) \o Flatten(Tail(parts))
Escaped(s, escape(_)) == Flatten([i \in 1..Len(s) |-> escape(s[i])])

\* json.dumps(v) with the default separators and ensure_ascii; of the
\* model's characters the quote, the backslash, the newline and the arrow
\* are escaped
JsonChar(c) ==
    CASE c = "\"" -> <<"\\", "\"">>
      [] c = "\\" -> <<"\\", "\\">>
      [] c = "\n" -> <<"\\", "n">>
      [] c = "ARROW" -> <<"\\", "u", "2", "1", "9", "2">>
      [] OTHER -> <<c>>
RECURSIVE JsonDumps(_)
RECURSIVE DumpItems(_)
RECURSIVE DumpPairs(_, _)
\* the characters of a str: those json.dumps wrote when it holds JSON text
TextOf(v) == IF v.t = "jsontext" THEN JsonDumps(v.val) ELSE v.s
DumpStr(s) == <<"\"">> \o Escaped(s, JsonChar) \o <<"\"">>
DumpItems(items) ==
    IF items = <<>> THEN <<>>
    ELSE JsonDumps(items[1])
         \o (IF Len(items) = 1 THEN <<>> ELSE <<",", " ">> \o DumpItems(Tail(items)))
DumpPairs(ks, vs) ==
    IF ks = <<>> THEN <<>>
    ELSE DumpStr(ks[1]) \o <<":", " ">> \o JsonDumps(vs[1])
         \o (IF Len(ks) = 1 THEN <<>> ELSE <<",", " ">> \o DumpPairs(Tail(ks), Tail(vs)))
JsonDumps(v) ==
    CASE v.t = "null" -> s_null
      [] v.t = "bool" -> (IF v.b THEN s_true ELSE s_false)
      [] v.t = "num" -> NumToStr(v)
      [] v.t \in {"str", "jsontext"} -> DumpStr(TextOf(v))
      [] v.t = "list" -> <<"[">> \o DumpItems(v.items) \o <<"]">>
      [] v.t = "dict" -> <<"{">> \o DumpPairs(v.ks, v.vs) \o <<"}">>

\* repr(s) of a str: in double quotes when it holds an apostrophe and no
\* double quote, else in apostrophes; the quote, the backslash and the
\* newline are escaped
ReprQuote(s) == IF InSeq(s, "'") /\ ~InSeq(s, "\"") THEN "\"" ELSE "'"
ReprStr(s) ==
    LET quote == ReprQuote(s)
        ReprChar(c) == IF c = "\n" THEN <<"\\", "n">>
                       ELSE IF c = "\\" \/ c = quote THEN <<"\\", c>>
                       ELSE <<c>>
    IN <<quote>> \o Escaped(s, ReprChar) \o <<quote>>

RECURSIVE PyRepr(_)
RECURSIVE ReprItems(_)
RECURSIVE ReprPairs(_, _)
ReprItems(items) ==
    IF items = <<>> THEN <<>>
    ELSE PyRepr(items[1])
         \o (IF Len(items) = 1 THEN <<>> ELSE <<",", " ">> \o ReprItems(Tail(items)))
ReprPairs(ks, vs) ==
    IF ks = <<>> THEN <<>>
    ELSE ReprStr(ks[1]) \o <<":", " ">> \o PyRepr(vs[1])
         \o (IF Len(ks) = 1 THEN <<>> ELSE <<",", " ">> \o ReprPairs(Tail(ks), Tail(vs)))
PyRepr(v) ==
    CASE v.t = "null" -> s_None
      [] v.t = "bool" -> (IF v.b THEN s_True ELSE s_False)
      [] v.t = "num" -> NumToStr(v)
      [] v.t \in {"str", "jsontext"} -> ReprStr(TextOf(v))
      [] v.t = "list" -> <<"[">> \o ReprItems(v.items) \o <<"]">>
      [] v.t = "dict" -> <<"{">> \o ReprPairs(v.ks, v.vs) \o <<"}">>

\* str(v), also what an f-string puts for {v}
PyStr(v) == IF v.t \in {"str", "jsontext"} THEN TextOf(v) ELSE PyRepr(v)

\* v == w as a set or a dict compares hashable values: True is 1 and False
\* is 0, strs by their characters
AsInt(v) == IF v.t = "bool" THEN JNum(IF v.b THEN 1 ELSE 0) ELSE v
PyEq(v, w) ==
    IF v.t \in {"num", "bool"} /\ w.t \in {"num", "bool"} THEN AsInt(v) = AsInt(w)
    ELSE IF v.t \in {"str", "jsontext"} /\ w.t \in {"str", "jsontext"}
    THEN TextOf(v) = TextOf(w)
    ELSE v = w

TypeName(v) ==
    CASE v.t = "null" -> s_NoneType
      [] v.t = "bool" -> s_bool
      [] v.t = "num" -> s_int
      [] v.t \in {"str", "jsontext"} -> s_str
      [] v.t = "list" -> s_list
      [] v.t = "dict" -> s_dict

(***************************************************************************)
(* parser.py: _normalize_ts.                                               *)
(***************************************************************************)
\* value > 1e10, for the int hi * 10^6 + lo
MsThreshold == 10000               \* 1e10 / 10^6
IsMilliseconds(v) == v.hi > MsThreshold \/ (v.hi = MsThreshold /\ v.lo > 0)

\* datetime.fromtimestamp(sec, tz=utc) for sec = shi * 10^6 + slo seconds and
\* us microseconds; ValueError when the year is before datetime.MINYEAR or
\* past datetime.MAXYEAR
FromTimestampUtc(shi, slo, us) ==
    LET \* 10^6 = 11 * 86400 + 1600 * 31 and 86400 = 1600 * 54
        rest == 1600 * ((31 * shi) % 54) + slo
        days == 11 * shi + (31 * shi) \div 54 + rest \div 86400
        sod == rest % 86400
        n == EpochOrdinal + days
    IN IF n < 1 \/ n > DaysBeforeYear(MaxYear + 1)
       THEN Raise(BuiltinError("ValueError"))
       ELSE Bind(FromOrdinal(n), LAMBDA c :
                 Ret(DateTime(c.y, c.mo, c.d, sod \div 3600, (sod % 3600) \div 60,
                              sod % 60, us, TRUE, 0)))

\* parser.py:57-58: value / 1000 is a float (a double), and fromtimestamp
\* rounds the float's fraction, times 1e6, half to even.  Below 2^33 seconds
\* the double is within half a microsecond of the quotient and the
\* microseconds are exact; from 2^33 on the double is the multiple of
\* 2^-(52-e) nearest to the quotient, with 2^e <= seconds < 2^(e+1).
\* 2^33 .. 2^37 as hi * 10^6 + lo; a timestamp of 2^38 seconds or more is
\* past datetime.MAXYEAR
BinadeStarts ==
    <<<<8589, 934592>>, <<17179, 869184>>, <<34359, 738368>>, <<68719, 476736>>,
      <<137438, 953472>>>>
Binade(shi, slo) ==
    32 + Cardinality({k \in 1..Len(BinadeStarts) :
                         \/ shi > BinadeStarts[k][1]
                         \/ shi = BinadeStarts[k][1] /\ slo >= BinadeStarts[k][2]})
RECURSIVE Pow2(_)
Pow2(n) == IF n = 0 THEN 1 ELSE 2 * Pow2(n - 1)
\* num / den rounded to an integer, half to even; odd says that the integer
\* the quotient is added to is odd
RoundHalfEven(num, den, odd) ==
    LET quot == num \div den
        rest == num % den
    IN IF 2 * rest > den \/ (2 * rest = den /\ ((quot % 2 = 1) # odd))
       THEN quot + 1 ELSE quot
\* the microseconds fromtimestamp gives the double of (seconds + ms / 1000),
\* seconds in the binade e >= 33; 10^6 when the fraction rounds to a second
FloatMicros(ms, e) ==
    LET unit == Pow2(52 - e)                       \* the double's grid, per second
        ticks == RoundHalfEven(ms * unit, 1000, FALSE)
        \* ticks * 10^6 / unit = ticks * 15625 / (unit / 64), exact in a double
        coarse == unit \div 64
        whole == (ticks \div coarse) * 15625
    IN whole + RoundHalfEven((ticks % coarse) * 15625, coarse, whole % 2 = 1)
FromMilliseconds(n) ==
    LET shi == n.hi \div 1000
        slo == (n.hi % 1000) * 1000 + n.lo \div 1000
        ms == n.lo % 1000
        e == Binade(shi, slo)
        us == IF e < 33 \/ e > 37 THEN ms * 1000 ELSE FloatMicros(ms, e)
    IN IF us >= Million THEN FromTimestampUtc(shi, slo + 1, us - Million)
       ELSE FromTimestampUtc(shi, slo, us)

NormalizeNumber(v) ==
    Bind(IF v.t = "bool" THEN JNum(IF v.b THEN 1 ELSE 0) ELSE v, LAMBDA n :
    Bind(IF IsMilliseconds(n) THEN FromMilliseconds(n)
         ELSE FromTimestampUtc(n.hi, n.lo, 0), LAMBDA dt :
         IF dt.ok THEN Ret(JStr(IsoFormat(dt.val))) ELSE dt))

\* _normalize_ts(value): Ret(None or a str), or the exception raised
NormalizeTs(value) ==
    IF IsNone(value) THEN Ret(JNull)
    ELSE IF IsNumber(value) THEN NormalizeNumber(value)
    ELSE IF IsStr(value)
    THEN Bind(EnsureIso8601(value.s), LAMBDA r :
              IF r.ok THEN Ret(JStr(r.val)) ELSE Ret(value))
    ELSE Ret(JStr(PyStr(value)))

(***************************************************************************)
(* The cache file and json.load / json.loads.                              *)
(*                                                                         *)
(* A file is absent, or has a permission bit, a size and a text.  A text   *)
(* is a str: JText(v) when it is the serialisation of the JSON value v,    *)
(* JStr(chars) otherwise.  Of the plain texts, json accepts the decimal    *)
(* integers and the literals null, true and false; every other plain text  *)
(* the model uses is not JSON.                                             *)
(***************************************************************************)
NoFile == [exists |-> FALSE]
File(readable, size, text) ==
    [exists |-> TRUE, readable |-> readable, size |-> size, text |-> text]

JsonLoads(text) ==
    IF text.t = "jsontext" THEN Ret(text.val)
    ELSE IF IsDecimal(text.s) /\ (Len(text.s) = 1 \/ text.s[1] # "0")
         THEN (IF Len(text.s) <= 6 THEN Ret(JBig(0, StrToNat(text.s)))
               ELSE Ret(JBig(StrToNat(SubSeq(text.s, 1, Len(text.s) - 6)),
                             StrToNat(SubSeq(text.s, Len(text.s) - 5, Len(text.s))))))
    ELSE IF text.s = s_null THEN Ret(JNull)
    ELSE IF text.s = s_true THEN Ret(JBool(TRUE))
    ELSE IF text.s = s_false THEN Ret(JBool(FALSE))
    ELSE IF text.s = <<"[", "]">> THEN Ret(EmptyList)
    ELSE IF text.s = <<"{", "}">> THEN Ret(EmptyDict)
    ELSE Raise(BuiltinError("JSONDecodeError"))

\* v[key] for a str key
Subscript(v, key) ==
    IF IsDict(v)
    THEN (IF HasKey(v, key) THEN Ret(Get(v, key)) ELSE Raise(BuiltinError("KeyError")))
    ELSE Raise(BuiltinError("TypeError"))

\* str(exc), kept as the exception's class name
Reason(e) == JStr(<<e.exc>>)

(***************************************************************************)
(* parser.py: CacheState and GranolaParser.load_cache / reload.            *)
(*                                                                         *)
(* A call's effect is a record: out (Ret or Raise), cache (the new value   *)
(* of parser._cache) and io (the storage calls made, in order: "exists",   *)
(* "access", "open", "stat").  The parser is always built with a path      *)
(* (server.py:81, local_file.py:27).                                       *)
(***************************************************************************)
CachePath == <<"c", "a", "c", "h", "e", "-", "v", "3", ".", "j", "s", "o", "n">>

NoCache == [loaded |-> FALSE]
CacheState(state, loaded_at) == [loaded |-> TRUE, state |-> state, loaded_at |-> loaded_at]

Effect(out, c, io) == [out |-> out, cache |-> c, io |-> io]

PathDetails == JDict(<<s_path>>, <<JStr(CachePath)>>)
PathAnd(key, v) == JDict(<<s_path, key>>, <<JStr(CachePath), v>>)

\* a variant of Memoized: load_cache without line 115: every call reads the file
NeverMemoized(c, force_reload) == FALSE

\* parser.py:115: the memoized snapshot answers the call
Memoized(c, force_reload) == c.loaded /\ ~force_reload

\* parser.py:122: path.exists() and os.access(path, os.R_OK)
Readable(f) == f.exists /\ f.readable
ReadableIo(f) == IF f.exists THEN <<"exists", "access">> ELSE <<"exists">>

\* parser.py:135-154: outer["cache"], decoded when it is a str
DecodeCacheField(outer) ==
    Bind(Subscript(outer, s_cache), LAMBDA cf :
       IF ~cf.ok
       THEN IF cf.err.exc = "KeyError"
            THEN Raise(GranolaParseError("Missing 'cache' field in outer JSON",
                                         PathAnd(s_outer_keys, KeyList(outer))))
            ELSE Raise(GranolaParseError("Failed to decode cache field",
                                         PathAnd(s_reason, Reason(cf.err))))
       ELSE IF IsStr(cf.val)
       THEN Bind(JsonLoads(cf.val), LAMBDA inner :
               IF inner.ok THEN inner
               ELSE Raise(GranolaParseError("Failed to decode cache field",
                                            PathAnd(s_reason, Reason(inner.err)))))
       ELSE IF IsDict(cf.val) THEN Ret(cf.val)
       \* the GranolaParseError of line 142 is caught by line 151
       ELSE Raise(GranolaParseError("Failed to decode cache field",
                                    PathAnd(s_reason, Reason(GranolaParseError("", JNull))))))

\* a variant of ValidateInner: load_cache without the check of lines 161-165
AcceptAnyDict(inner) ==
    IF ~IsDict(inner)
    THEN Raise(GranolaParseError("Inner cache is not a dict",
                                 PathAnd(s_inner_type, JStr(TypeName(inner)))))
    ELSE Ret(inner)

\* parser.py:156-165: the decoded payload is a dict that has "state"
ValidateInner(inner) ==
    IF ~IsDict(inner)
    THEN Raise(GranolaParseError("Inner cache is not a dict",
                                 PathAnd(s_inner_type, JStr(TypeName(inner)))))
    ELSE IF ~HasKey(inner, s_state)
    THEN Raise(GranolaParseError("Inner JSON missing 'state' field",
                                 PathAnd(s_inner_keys, KeyList(inner))))
    ELSE Ret(inner)

\* a variant of StoreSnapshot: a store that updates the memoized graph in place, its documents only
ReplaceInPlace(c, inner, t) ==
    IF c.loaded
    THEN CacheState(DictSet(c.state, s_state,
                            DictSet(Get(c.state, s_state), s_documents,
                                    Get(Get(inner, s_state), s_documents))), t)
    ELSE CacheState(inner, t)

\* parser.py:167: the snapshot stored by a load that passed every check
StoreSnapshot(c, inner, t) == CacheState(inner, t)

\* a variant of KeepSnapshot: a failed load that drops the memoized snapshot
DropSnapshot(c) == NoCache

\* a variant of KeepSnapshot: a failed load that keeps the graph and resets
\* its load time
ResetLoadTime(c) == IF c.loaded THEN CacheState(c.state, 0) ELSE c

\* the snapshot kept by a load that failed
KeepSnapshot(c) == c

\* GranolaParser.load_cache(force_reload) on cache c, file f, at time t
LoadCache(c, f, t, force_reload) ==
    IF Memoized(c, force_reload) THEN Effect(Ret(c.state), c, <<>>)
    ELSE IF ~Readable(f)
    THEN Effect(Raise(GranolaParseError("Cache file not readable: cache-v3.json", PathDetails)),
                KeepSnapshot(c), ReadableIo(f))
    ELSE
      LET io == <<"exists", "access", "open">>
      IN Bind(JsonLoads(f.text), LAMBDA outer :
         IF ~outer.ok
         THEN Effect(Raise(GranolaParseError("Failed to read outer JSON",
                                             PathAnd(s_reason, Reason(outer.err)))),
                     KeepSnapshot(c), io)
         ELSE Bind(DecodeCacheField(outer.val), LAMBDA dec :
              Bind(IF dec.ok THEN ValidateInner(dec.val) ELSE dec, LAMBDA inner :
                 IF ~inner.ok THEN Effect(inner, KeepSnapshot(c), io)
                 ELSE Effect(inner, StoreSnapshot(c, inner.val, t), io))))

\* GranolaParser.reload
Reload(c, f, t) == LoadCache(c, f, t, TRUE)

(***************************************************************************)
(* parser.py: GranolaParser.get_meetings, the extraction pass.             *)
(***************************************************************************)
TypeError == BuiltinError("TypeError")

\* parser.py:250-261: the reverse folder mapping, as the assignments
\* folder_map[meeting_id] = (folder_id, folder_name) in the order made; a
\* member that is a list or a dict cannot be a dict key
RECURSIVE FolderAssignments(_, _, _)
FolderAssignments(ids, folder_id, folder_name) ==
    IF ids = <<>> THEN Ret(<<>>)
    ELSE IF ~Hashable(Head(ids)) THEN Raise(TypeError)
    ELSE LET rest == FolderAssignments(Tail(ids), folder_id, folder_name)
         IN IF ~rest.ok THEN rest
            ELSE Ret(<<[key |-> Head(ids), folder_id |-> JStr(folder_id),
                        folder_name |-> folder_name]>> \o rest.val)

RECURSIVE FolderMapFrom(_, _, _)
FolderMapFrom(lists_map, lists_meta, i) ==
    IF i > DictLen(lists_map) THEN Ret(<<>>)
    ELSE LET folder_id == lists_map.ks[i]
             ids == lists_map.vs[i]
             rest == FolderMapFrom(lists_map, lists_meta, i + 1)
         IN IF ~IsList(ids) THEN rest
            ELSE LET folder_meta == GetOr(lists_meta, folder_id, EmptyDict)
                     folder_name == IF IsDict(folder_meta) THEN Get(folder_meta, s_title)
                                    ELSE JNull
                 IN Bind(FolderAssignments(ids.items, folder_id, folder_name), LAMBDA here :
                    IF ~here.ok THEN here
                    ELSE IF ~rest.ok THEN rest
                    ELSE Ret(here.val \o rest.val))

BuildFolderMap(lists_map, lists_meta) ==
    IF IsDict(lists_map) /\ IsDict(lists_meta)
    THEN FolderMapFrom(lists_map, lists_meta, 1)
    ELSE Ret(<<>>)

\* folder_map.get(meeting_id): the last assignment made to that key
FolderLookup(folder_map, meeting_id) ==
    LET hits == {i \in 1..Len(folder_map) : folder_map[i].key = JStr(meeting_id)}
    IN IF hits = {} THEN [found |-> FALSE]
       ELSE LET i == CHOOSE k \in hits : \A j \in hits : j <= k
            IN [found |-> TRUE, folder_id |-> folder_map[i].folder_id,
                folder_name |-> folder_map[i].folder_name]

\* a variant of CollectNames: every non-empty name kept, repeats included
RECURSIVE CollectEveryName(_, _)
CollectEveryName(entries, participants) ==
    IF entries = <<>> THEN Ret(participants)
    ELSE LET e == Head(entries)
             name == IF IsDict(e) THEN Get(e, s_name) ELSE JNull
         IN IF ~IsDict(e) \/ ~Truthy(name) THEN CollectEveryName(Tail(entries), participants)
            ELSE IF ~Hashable(name) THEN Raise(TypeError)
            ELSE CollectEveryName(Tail(entries), Append(participants, name))

\* parser.py:284-289 and 298-303: the names of the dict entries, without
\* repeats, appended to participants; `name not in seen` hashes the name
RECURSIVE CollectNames(_, _)
CollectNames(entries, participants) ==
    IF entries = <<>> THEN Ret(participants)
    ELSE LET e == Head(entries)
             name == IF IsDict(e) THEN Get(e, s_name) ELSE JNull
         IN IF ~IsDict(e) \/ ~Truthy(name) THEN CollectNames(Tail(entries), participants)
            ELSE IF ~Hashable(name) THEN Raise(TypeError)
            ELSE IF \E i \in 1..Len(participants) : PyEq(participants[i], name)
            THEN CollectNames(Tail(entries), participants)
            ELSE CollectNames(Tail(entries), Append(participants, name))

\* parser.py:280-289
EmbeddedParticipants(doc) ==
    LET people == GetOr(doc, s_people, EmptyList)
    IN IF IsList(people) THEN CollectNames(people.items, <<>>) ELSE Ret(<<>>)

\* a variant of UseAttendees: the attendee list consulted whether or not a name was found
AlsoWithEmbedded(participants, metadata_map) == IsDict(metadata_map)

\* parser.py:292: the attendee list is consulted only when no name was found
UseAttendees(participants, metadata_map) == participants = <<>> /\ IsDict(metadata_map)

\* a variant of WithAttendees: the attendee list never consulted
WithoutAttendees(participants, metadata_map, meeting_id) == Ret(participants)

\* parser.py:291-303
WithAttendees(participants, metadata_map, meeting_id) ==
    IF ~UseAttendees(participants, metadata_map) THEN Ret(participants)
    ELSE Bind(GetOr(metadata_map, meeting_id, EmptyDict), LAMBDA meta :
         Bind(IF IsDict(meta) THEN GetOr(meta, s_attendees, EmptyList) ELSE JNull,
              LAMBDA attendees :
            IF IsDict(meta) /\ IsList(attendees)
            THEN CollectNames(attendees.items, participants)
            ELSE Ret(participants)))

\* a variant of DetectPlatform: a provider that is not known leaves the platform unset
DetectKnownPlatform(metadata_map, meeting_id) ==
    IF ~IsDict(metadata_map) THEN Ret(JNull)
    ELSE Bind(GetOr(metadata_map, meeting_id, EmptyDict), LAMBDA meta :
         Bind(IF IsDict(meta) THEN Get(meta, s_conference) ELSE JNull, LAMBDA conf :
         Bind(IF IsDict(conf) THEN Get(conf, s_provider) ELSE JNull, LAMBDA provider :
            IF ~IsDict(meta) \/ ~IsDict(conf) THEN Ret(JNull)
            ELSE IF provider = JStr(s_google_meet) THEN Ret(JStr(s_meet))
            ELSE IF ~Hashable(provider) THEN Raise(TypeError)
            ELSE IF provider \in {JStr(s_zoom), JStr(s_teams)} THEN Ret(provider)
            ELSE Ret(JNull))))

\* parser.py:305-318; `provider in {"zoom", "teams"}` hashes the provider
DetectPlatform(metadata_map, meeting_id) ==
    IF ~IsDict(metadata_map) THEN Ret(JNull)
    ELSE Bind(GetOr(metadata_map, meeting_id, EmptyDict), LAMBDA meta :
         Bind(IF IsDict(meta) THEN Get(meta, s_conference) ELSE JNull, LAMBDA conf :
         Bind(IF IsDict(conf) THEN Get(conf, s_provider) ELSE JNull, LAMBDA provider :
            IF ~IsDict(meta) \/ ~IsDict(conf) THEN Ret(JNull)
            ELSE IF provider = JStr(s_google_meet) THEN Ret(JStr(s_meet))
            ELSE IF ~Hashable(provider) THEN Raise(TypeError)
            ELSE IF provider \in {JStr(s_zoom), JStr(s_teams)} THEN Ret(provider)
            ELSE IF Truthy(provider) THEN Ret(JStr(s_other))
            ELSE Ret(JNull))))

\* a variant of FirstPanelContent: the content taken as it is, not stripped
RECURSIVE FirstRawPanelContent(_)
FirstRawPanelContent(panels) ==
    IF panels = <<>> THEN JNull
    ELSE Bind(Head(panels), LAMBDA panel :
         Bind(IF IsDict(panel) THEN Get(panel, s_original_content) ELSE JNull,
              LAMBDA original :
            IF IsDict(panel) /\ Truthy(original) /\ IsStr(original) /\ original.s # s_hr
            THEN original
            ELSE FirstRawPanelContent(Tail(panels))))

\* parser.py:328-335: the first panel with usable original_content
RECURSIVE FirstPanelContent(_)
FirstPanelContent(panels) ==
    IF panels = <<>> THEN JNull
    ELSE Bind(Head(panels), LAMBDA panel :
         Bind(IF IsDict(panel) THEN Get(panel, s_original_content) ELSE JNull,
              LAMBDA original :
         Bind(IF original.t = "str" THEN StrStrip(original.s) ELSE <<>>, LAMBDA stripped :
            IF IsDict(panel) /\ Truthy(original) /\ IsStr(original)
               /\ stripped # <<>> /\ stripped # s_hr
            THEN JStr(stripped)
            ELSE FirstPanelContent(Tail(panels)))))

\* parser.py:320-335
ResolveNotes(doc, panels_map, meeting_id) ==
    Bind(PyOr(Get(doc, s_notes_plain), Get(doc, s_notes_markdown)), LAMBDA notes :
       IF ~Truthy(notes) /\ IsDict(panels_map)
       THEN Bind(GetOr(panels_map, meeting_id, EmptyDict), LAMBDA meeting_panels :
            Bind(IF IsDict(meeting_panels) THEN FirstPanelContent(meeting_panels.vs)
                 ELSE JNull, LAMBDA found :
               IF found # JNull THEN found ELSE notes))
       ELSE notes)

\* parser.py:268-272: the documents that are surfaced
IsMeetingDoc(doc) ==
    /\ IsDict(doc)
    /\ ~(Truthy(Get(doc, s_type)) /\ Get(doc, s_type) # JStr(s_meeting))

\* parser.py:274
MeetingId(doc_key, doc) == PyStr(PyOr(Get(doc, s_id), JStr(doc_key)))

\* parser.py:274-358: the record of one document, or the exception raised
ExtractDoc(doc_key, doc, state, folder_map, debug) ==
    LET metadata_map == GetOr(state, s_meetingsMetadata, EmptyDict)
        panels_map == GetOr(state, s_documentPanels, EmptyDict)
        title == PyOr(Get(doc, s_title), JStr(s_Untitled_Meeting))
    IN
    Bind(MeetingId(doc_key, doc), LAMBDA meeting_id :
    Bind(NormalizeTs(Get(doc, s_created_at)), LAMBDA start_ts :
    Bind(EmbeddedParticipants(doc), LAMBDA embedded :
    Bind(IF embedded.ok THEN WithAttendees(embedded.val, metadata_map, meeting_id)
         ELSE embedded, LAMBDA participants :
    Bind(DetectPlatform(metadata_map, meeting_id), LAMBDA platform :
    Bind(FolderLookup(folder_map, meeting_id), LAMBDA folder_info :
    Bind([id |-> JStr(meeting_id),
          title |-> title,
          start_ts |-> IF start_ts.ok THEN PyOr(start_ts.val, JStr(<<>>)) ELSE JNull,
          end_ts |-> JNull,
          participants |-> IF participants.ok THEN JList(participants.val) ELSE JNull,
          platform |-> IF platform.ok THEN platform.val ELSE JNull,
          notes |-> ResolveNotes(doc, panels_map, meeting_id),
          overview |-> Get(doc, s_overview),
          summary |-> Get(doc, s_summary),
          folder_id |-> IF folder_info.found THEN folder_info.folder_id ELSE JNull,
          folder_name |-> IF folder_info.found THEN folder_info.folder_name ELSE JNull],
         LAMBDA item :
       IF ~start_ts.ok THEN start_ts
       ELSE IF ~participants.ok THEN participants
       ELSE IF ~platform.ok THEN platform
       ELSE IF debug THEN Ret(item @@ [raw_doc_keys |-> KeyList(doc)])
       ELSE Ret(item))))))))

\* parser.py:267-358: the records in the order of the documents mapping
RECURSIVE ExtractFrom(_, _, _, _, _)
ExtractFrom(documents, i, state, folder_map, debug) ==
    IF i > DictLen(documents) THEN Ret(<<>>)
    ELSE IF ~IsMeetingDoc(documents.vs[i])
    THEN ExtractFrom(documents, i + 1, state, folder_map, debug)
    ELSE Bind(ExtractDoc(documents.ks[i], documents.vs[i], state, folder_map, debug),
              LAMBDA item :
            IF ~item.ok THEN item
            ELSE LET rest == ExtractFrom(documents, i + 1, state, folder_map, debug)
                 IN IF ~rest.ok THEN rest ELSE Ret(<<item.val>> \o rest.val))

\* a variant of SortByStartDescending: an ascending sort reversed, which
\* reverses the records of equal start_ts
RECURSIVE InsertBeforeEqual(_, _)
InsertBeforeEqual(sorted, x) ==
    IF sorted = <<>> THEN <<x>>
    ELSE IF ~StrLess(x.start_ts.s, Head(sorted).start_ts.s) THEN <<x>> \o sorted
    ELSE <<Head(sorted)>> \o InsertBeforeEqual(Tail(sorted), x)
RECURSIVE SortAscendingReversed(_)
SortAscendingReversed(items) ==
    IF items = <<>> THEN <<>>
    ELSE InsertBeforeEqual(SortAscendingReversed(SubSeq(items, 1, Len(items) - 1)),
                           items[Len(items)])

\* parser.py:361: list.sort(key=start_ts, reverse=True), which is stable
RECURSIVE InsertDescending(_, _)
InsertDescending(sorted, x) ==
    IF sorted = <<>> THEN <<x>>
    ELSE IF StrLess(Head(sorted).start_ts.s, x.start_ts.s) THEN <<x>> \o sorted
    ELSE <<Head(sorted)>> \o InsertDescending(Tail(sorted), x)
RECURSIVE SortByStartDescending(_)
SortByStartDescending(items) ==
    IF items = <<>> THEN <<>>
    ELSE InsertDescending(SortByStartDescending(SubSeq(items, 1, Len(items) - 1)),
                          items[Len(items)])

\* parser.py:240-362: the extraction from a decoded payload
ExtractMeetings(inner, debug) ==
    Bind(GetOr(inner, s_state, EmptyDict), LAMBDA state :
       IF ~IsDict(state) THEN Ret(<<>>)
       ELSE Bind(GetOr(state, s_documents, EmptyDict), LAMBDA documents :
            Bind(BuildFolderMap(GetOr(state, s_documentLists, EmptyDict),
                                GetOr(state, s_documentListsMetadata, EmptyDict)),
                 LAMBDA folder_map :
               IF ~folder_map.ok THEN folder_map
               ELSE IF ~IsDict(documents) THEN Ret(<<>>)
               ELSE Bind(ExtractFrom(documents, 1, state, folder_map.val, debug),
                         LAMBDA items :
                       IF ~items.ok THEN items
                       ELSE Ret(SortByStartDescending(items.val))))))

\* a variant of GetMeetings: get_meetings that extracts from the file as it is now, when it loads,
\* and keeps the memoized snapshot
GetMeetingsFromFile(c, f, t, debug) ==
    Bind(LoadCache(c, f, t, TRUE), LAMBDA ld :
       IF ld.out.ok
       THEN Effect(ExtractMeetings(ld.out.val, debug), IF c.loaded THEN c ELSE ld.cache, ld.io)
       ELSE IF c.loaded THEN Effect(ExtractMeetings(c.state, debug), c, ld.io)
       ELSE ld)

\* a variant of GetMeetings: get_meetings that reloads on every call
GetMeetingsReloading(c, f, t, debug) ==
    Bind(LoadCache(c, f, t, TRUE), LAMBDA ld :
       IF ~ld.out.ok THEN ld
       ELSE Effect(ExtractMeetings(ld.out.val, debug), ld.cache, ld.io))

\* GranolaParser.get_meetings(debug)
GetMeetings(c, f, t, debug) ==
    Bind(LoadCache(c, f, t, FALSE), LAMBDA ld :
       IF ~ld.out.ok THEN ld
       ELSE Effect(ExtractMeetings(ld.out.val, debug), ld.cache, ld.io))

\* a variant of FirstWithId: get_meeting_by_id that keeps the last match
LastWithId(items, meeting_id) ==
    LET hits == {i \in 1..Len(items) : items[i].id = JStr(meeting_id)}
    IN IF hits = {} THEN [found |-> FALSE]
       ELSE [found |-> TRUE, item |-> items[CHOOSE k \in hits : \A j \in hits : k >= j]]

\* parser.py:367-370: the first record with that id, or None
FirstWithId(items, meeting_id) ==
    LET hits == {i \in 1..Len(items) : items[i].id = JStr(meeting_id)}
    IN IF hits = {} THEN [found |-> FALSE]
       ELSE [found |-> TRUE, item |-> items[CHOOSE k \in hits : \A j \in hits : k <= j]]

\* GranolaParser.get_meeting_by_id(meeting_id)
GetMeetingById(c, f, t, meeting_id) ==
    Bind(GetMeetings(c, f, t, FALSE), LAMBDA r :
       IF ~r.out.ok THEN r
       ELSE Effect(Ret(FirstWithId(r.out.val, meeting_id)), r.cache, r.io))

(***************************************************************************)
(* parser.py: validate_cache_structure and get_cache_info.                 *)
(***************************************************************************)
\* CacheState.loaded_at_iso; the clock counts seconds from the epoch
LoadedAtIso(c) == JStr(IsoFormat(FromTimestampUtc(0, c.loaded_at, 0).val))

\* parser.py:183-186, on the payload load_cache returned
ValidStructure(inner) ==
    LET state == GetOr(inner, s_state, EmptyDict)
    IN IsDict(state) /\ (HasKey(state, s_documents) \/ HasKey(state, s_meetingsMetadata))

\* GranolaParser.validate_cache_structure: any exception gives False
ValidateCacheStructure(c, f, t) ==
    Bind(LoadCache(c, f, t, FALSE), LAMBDA ld :
       Effect(Ret(JBool(ld.out.ok /\ ValidStructure(ld.out.val))), ld.cache, ld.io))

s_exists == <<"e", "x", "i", "s", "t", "s">>
s_readable == <<"r", "e", "a", "d", "a", "b", "l", "e">>
s_size_bytes == <<"s", "i", "z", "e", "_", "b", "y", "t", "e", "s">>
s_meeting_count == <<"m", "e", "e", "t", "i", "n", "g", "_", "c", "o", "u", "n", "t">>
s_valid_structure == <<"v", "a", "l", "i", "d", "_", "s", "t", "r", "u", "c", "t", "u", "r", "e">>
s_last_loaded_ts == <<"l", "a", "s", "t", "_", "l", "o", "a", "d", "e", "d", "_", "t", "s">>
s_total_cache_size_bytes == <<"t", "o", "t", "a", "l", "_", "c", "a", "c", "h", "e", "_", "s", "i", "z", "e", "_", "b", "y", "t", "e", "s">>
s_oldest_cache_ts == <<"o", "l", "d", "e", "s", "t", "_", "c", "a", "c", "h", "e", "_", "t", "s">>

\* parser.py:205-207
MeetingCount(inner) ==
    Bind(GetOr(inner, s_state, EmptyDict), LAMBDA state :
    Bind(IF IsDict(state) THEN GetOr(state, s_documents, EmptyDict) ELSE JNull,
         LAMBDA documents :
       IF IsDict(state) /\ IsDict(documents) THEN DictLen(documents) ELSE 0))

\* GranolaParser.get_cache_info: the loads of lines 202 and 204 are inside a
\* try whose handler swallows every exception
GetCacheInfo(c, f, t) ==
    Bind(LoadCache(c, f, t, FALSE), LAMBDA ld :
    Bind(IF ld.out.ok THEN ValidateCacheStructure(ld.cache, f, t)
         ELSE Effect(Ret(JBool(FALSE)), ld.cache, <<>>), LAMBDA vs :
    LET c2 == vs.cache
        info == JDict(
            <<s_path, s_exists, s_readable, s_size_bytes, s_meeting_count,
              s_valid_structure, s_last_loaded_ts>>,
            <<JStr(CachePath),
              JBool(f.exists),
              JBool(Readable(f)),
              JNum(IF f.exists THEN f.size ELSE 0),
              JNum(IF ld.out.ok THEN MeetingCount(ld.out.val) ELSE 0),
              IF ld.out.ok THEN vs.out.val ELSE JBool(FALSE),
              IF ld.out.ok /\ c2.loaded THEN LoadedAtIso(c2) ELSE JNull>>)
    IN Effect(Ret(info), c2,
              (IF f.exists THEN <<"exists", "stat">> ELSE <<"exists">>)
              \o ld.io \o vs.io \o <<"access">>)))

(***************************************************************************)
(* tools/meetings.py: record conversion, filters and pagination.           *)
(*                                                                         *)
(* Tool inputs are the validated schemas.py models, as records of decoded  *)
(* values: an absent Optional field is JNull.                              *)
(***************************************************************************)
ValueError == BuiltinError("ValueError")
AttributeError == BuiltinError("AttributeError")

\* str(n) of an int
IntToStr(n) == IF n < 0 THEN <<"-">> \o NatToStr(-n) ELSE NatToStr(n)

\* the digits of an int literal: single underscores may separate digits
IsIntDigits(s) ==
    /\ s # <<>>
    /\ \A i \in 1..Len(s) : IsDigit(s[i]) \/ s[i] = "_"
    /\ s[1] # "_" /\ s[Len(s)] # "_"
    /\ \A i \in 1..(Len(s) - 1) : ~(s[i] = "_" /\ s[i + 1] = "_")
WithoutUnderscores(s) == SelectSeq(s, LAMBDA ch : ch # "_")

\* int(v) of an int or a str
PyInt(v) ==
    IF v.t = "num" THEN Ret(v.hi * Million + v.lo)
    ELSE Bind(StrStrip(v.s), LAMBDA b :
         LET signed == b # <<>> /\ b[1] \in {"+", "-"}
             body == IF signed THEN Tail(b) ELSE b
         IN IF ~IsIntDigits(body) THEN Raise(ValueError)
            ELSE IF signed /\ b[1] = "-" THEN Ret(-StrToNat(WithoutUnderscores(body)))
            ELSE Ret(StrToNat(WithoutUnderscores(body))))

\* items[start:end]
SliceIndex(i, n) == IF i < 0 THEN Max(i + n, 0) ELSE Min(i, n)
PySlice(items, start, end) ==
    LET lo == SliceIndex(start, Len(items))
        hi == SliceIndex(end, Len(items))
    IN IF lo < hi THEN SubSeq(items, lo + 1, hi) ELSE <<>>

\* schemas.py: ListMeetingsInput.limit and SearchMeetingsInput.limit
DefaultLimit == 50

Page(items, next_cursor) == [items |-> items, next_cursor |-> next_cursor]

\* a variant of Paginate: the next page starts one record too far
PaginateSkipping(items, limit, cursor) ==
    Bind(PyInt(PyOr(cursor, JNum(0))), LAMBDA start :
       IF ~start.ok THEN start
       ELSE LET end == start.val + limit
            IN Ret(Page(PySlice(items, start.val, end),
                        IF end < Len(items) THEN JStr(IntToStr(end + 1)) ELSE JNull)))

\* a variant of Paginate: a next_cursor also when the page ends on the last record
PaginateToTheEnd(items, limit, cursor) ==
    Bind(PyInt(PyOr(cursor, JNum(0))), LAMBDA start :
       IF ~start.ok THEN start
       ELSE LET end == start.val + limit
            IN Ret(Page(PySlice(items, start.val, end),
                        IF end <= Len(items) THEN JStr(IntToStr(end)) ELSE JNull)))

\* _paginate(items, limit=, cursor=)
Paginate(items, limit, cursor) ==
    Bind(PyInt(PyOr(cursor, JNum(0))), LAMBDA start :
       IF ~start.ok THEN start
       ELSE LET end == start.val + limit
            IN Ret(Page(PySlice(items, start.val, end),
                        IF end < Len(items) THEN JStr(IntToStr(end)) ELSE JNull)))

StrOrNone(v) == IF IsStr(v) THEN v ELSE JNull

\* _to_summary(item)
ToSummary(item) ==
    Bind(PyOr(item.participants, EmptyList), LAMBDA participants :
       [id |-> JStr(PyStr(item.id)),
        title |-> JStr(PyStr(PyOr(item.title, JStr(s_Untitled_Meeting)))),
        start_ts |-> JStr(PyStr(PyOr(item.start_ts, JStr(<<>>)))),
        end_ts |-> StrOrNone(item.end_ts),
        participants |-> JList([i \in 1..Len(participants.items) |->
                                    JStr(PyStr(participants.items[i]))]),
        platform |-> StrOrNone(item.platform),
        metadata |-> JNull])

\* _to_meeting(item)
ToMeeting(item) ==
    ToSummary(item) @@
    [notes |-> StrOrNone(item.notes),
     overview |-> StrOrNone(item.overview),
     summary |-> StrOrNone(item.summary),
     folder_id |-> StrOrNone(item.folder_id),
     folder_name |-> StrOrNone(item.folder_name)]

\* meetings.py:91 and 152: the lowered text a query is looked up in;
\* " ".join raises TypeError on a participant that is not a str
Haystack(item) ==
    Bind(PyOr(item.participants, EmptyList).items, LAMBDA participants :
       IF \E i \in 1..Len(participants) : ~IsStr(participants[i]) THEN Raise(TypeError)
       ELSE Ret(StrLower(PyStr(item.title) \o <<" ">> \o PyStr(item.notes) \o <<" ">>
                         \o StrJoin(<<" ">>, [i \in 1..Len(participants) |-> participants[i].s]))))

\* meetings.py:96-99: some wanted name is, lowered, a participant
SharesParticipant(item, wanted) ==
    Bind(PyOr(item.participants, EmptyList).items, LAMBDA participants :
    LET want == {StrLower(wanted.items[i].s) : i \in 1..Len(wanted.items)}
        have == {StrLower(PyStr(participants[i])) : i \in 1..Len(participants)}
    IN want \cap have # {})

\* a variant of NotBefore: a record that starts exactly at the bound is dropped
AfterOnly(item, from_ts) ==
    Bind(EnsureIso8601(from_ts.s), LAMBDA bound :
         ~bound.ok \/ StrLess(bound.val, PyStr(PyOr(item.start_ts, JStr(<<>>)))))

\* meetings.py:100-105: a bound that does not parse filters nothing
NotBefore(item, from_ts) ==
    Bind(EnsureIso8601(from_ts.s), LAMBDA bound :
         ~bound.ok \/ ~StrLess(PyStr(PyOr(item.start_ts, JStr(<<>>))), bound.val))

\* a variant of NotAfter: an upper bound also drops the records without a start
DatedNotAfter(item, to_ts) ==
    Bind(EnsureIso8601(to_ts.s), LAMBDA bound :
         ~bound.ok \/ (Truthy(item.start_ts)
                         /\ ~StrLess(bound.val, PyStr(PyOr(item.start_ts, JStr(<<>>))))))

\* meetings.py:106-111
NotAfter(item, to_ts) ==
    Bind(EnsureIso8601(to_ts.s), LAMBDA bound :
         ~bound.ok \/ ~StrLess(bound.val, PyStr(PyOr(item.start_ts, JStr(<<>>)))))

\* list_meetings.matches(item)
ListMatches(item, params) ==
    Bind(IF Truthy(params.q) THEN Haystack(item) ELSE Ret(<<>>), LAMBDA hay :
       IF ~hay.ok THEN hay
       ELSE Ret(/\ Truthy(params.q) => StrContains(hay.val, StrLower(params.q.s))
                /\ Truthy(params.participants) => SharesParticipant(item, params.participants)
                /\ Truthy(params.from_ts) => NotBefore(item, params.from_ts)
                /\ Truthy(params.to_ts) => NotAfter(item, params.to_ts)))

\* search_meetings.matches(item); filters is JNull or a SearchFilters record
SearchMatches(item, params) ==
    Bind(Haystack(item), LAMBDA hay :
    LET q == StrLower(PyOr(params.q, JStr(<<>>)).s)
        filters == params.filters
    IN IF ~hay.ok THEN hay
       ELSE Ret(/\ StrContains(hay.val, q)
                /\ filters # JNull =>
                    /\ Truthy(filters.participants) => SharesParticipant(item, filters.participants)
                    /\ Truthy(filters.platform) =>
                           StrLower(PyStr(PyOr(item.platform, JStr(<<>>))))
                               = StrLower(filters.platform.s)
                    /\ Truthy(filters.after) => NotBefore(item, filters.after)
                    /\ Truthy(filters.before) => NotAfter(item, filters.before)))

\* [_to_summary(i) for i in raw_items if matches(i)]
Matches(item, params, search) ==
    IF search THEN SearchMatches(item, params) ELSE ListMatches(item, params)
RECURSIVE Summaries(_, _, _)
Summaries(raw_items, params, search) ==
    IF raw_items = <<>> THEN Ret(<<>>)
    ELSE Bind(Matches(Head(raw_items), params, search), LAMBDA m :
            IF ~m.ok THEN m
            ELSE LET rest == Summaries(Tail(raw_items), params, search)
                 IN IF ~rest.ok THEN rest
                    ELSE IF m.val THEN Ret(<<ToSummary(Head(raw_items))>> \o rest.val)
                    ELSE rest)

\* params.limit or 50
LimitOf(params) == PyInt(PyOr(params.limit, JNum(DefaultLimit))).val

\* meetings.py:84-116 and 146-188 after the records are fetched
FilterAndPaginate(raw_items, params, search) ==
    Bind(Summaries(raw_items, params, search), LAMBDA summaries :
       IF ~summaries.ok THEN summaries
       ELSE Paginate(summaries.val, LimitOf(params), params.cursor))

\* list_meetings(config, parser, params) on the parser's cache c
ListMeetings(c, f, t, params) ==
    Bind(GetMeetings(c, f, t, FALSE), LAMBDA r :
       IF ~r.out.ok THEN r
       ELSE Effect(FilterAndPaginate(r.out.val, params, FALSE), r.cache, r.io))

\* search_meetings(config, parser, params)
SearchMeetings(c, f, t, params) ==
    Bind(GetMeetings(c, f, t, FALSE), LAMBDA r :
       IF ~r.out.ok THEN r
       ELSE Effect(FilterAndPaginate(r.out.val, params, TRUE), r.cache, r.io))

\* a variant of GetMeeting: the cache is loaded before the id is looked at
GetMeetingLoadingFirst(c, f, t, params) ==
    Bind(LoadCache(c, f, t, FALSE), LAMBDA ld :
       IF ~ld.out.ok THEN ld
       ELSE IF ~Truthy(params.id)
       THEN Effect(Raise(BadRequestError("'id' is required", JNull)), ld.cache, ld.io)
       ELSE Bind(GetMeetingById(ld.cache, f, t, params.id.s), LAMBDA r :
            IF ~r.out.ok THEN Effect(r.out, r.cache, ld.io \o r.io)
            ELSE IF ~r.out.val.found
            THEN Effect(Raise(NotFoundError("Meeting not found",
                                            JDict(<<s_id>>, <<params.id>>))),
                        r.cache, ld.io \o r.io)
            ELSE Effect(Ret([meeting |-> ToMeeting(r.out.val.item)]), r.cache,
                        ld.io \o r.io)))

\* get_meeting(config, parser, params)
GetMeeting(c, f, t, params) ==
    IF ~Truthy(params.id)
    THEN Effect(Raise(BadRequestError("'id' is required", JNull)), c, <<>>)
    ELSE Bind(GetMeetingById(c, f, t, params.id.s), LAMBDA r :
            IF ~r.out.ok THEN r
            ELSE IF ~r.out.val.found
            THEN Effect(Raise(NotFoundError("Meeting not found",
                                            JDict(<<s_id>>, <<params.id>>))),
                        r.cache, r.io)
            ELSE Effect(Ret([meeting |-> ToMeeting(r.out.val.item)]), r.cache, r.io))

(***************************************************************************)
(* utils/markdown_export.py and tools/meetings.py: export and stats.       *)
(***************************************************************************)
s_hash_sp == <<"#", " ">>
s_dash_sp == <<"-", " ">>
s_id_label == <<"-", " ", "I", "D", ":", " ", "BQ">>
s_when_label == <<"-", " ", "W", "h", "e", "n", ":", " ">>
s_platform_label == <<"-", " ", "P", "l", "a", "t", "f", "o", "r", "m", ":", " ">>
s_folder_label == <<"-", " ", "F", "o", "l", "d", "e", "r", ":", " ">>
s_attendees_heading == <<"#", "#", " ", "A", "t", "t", "e", "n", "d", "e", "e", "s">>
s_notes_heading == <<"#", "#", " ", "N", "o", "t", "e", "s">>
s_arrow == <<" ", "ARROW", " ">>

\* markdown_export.py:31
DefaultSections == JList(<<JStr(s_header), JStr(s_attendees), JStr(s_notes)>>)

\* _format_attendees(attendees)
FormatAttendees(attendees) ==
    StrJoin(<<"\n">>, [i \in 1..Len(attendees) |-> s_dash_sp \o attendees[i].s])

\* markdown_export.py:34-46
HeaderParts(meeting) ==
    <<s_hash_sp \o meeting.title.s,
      <<>>,
      s_id_label \o meeting.id.s \o <<"BQ">>,
      s_when_label \o meeting.start_ts.s
          \o (IF Truthy(meeting.end_ts) THEN s_arrow \o meeting.end_ts.s ELSE <<>>)>>
    \o (IF Truthy(meeting.platform) THEN <<s_platform_label \o meeting.platform.s>> ELSE <<>>)
    \o (IF Truthy(meeting.folder_name) THEN <<s_folder_label \o meeting.folder_name.s>>
        ELSE <<>>)
    \o <<(<<>>)>>

\* a variant of RenderMeetingMarkdown: the joined parts are not stripped
RenderUnstripped(meeting, sections) ==
    Bind(PyOr(sections, DefaultSections).items, LAMBDA selected :
    LET parts ==
            (IF InSeq(selected, JStr(s_header)) THEN HeaderParts(meeting) ELSE <<>>)
            \o (IF InSeq(selected, JStr(s_attendees))
                THEN <<s_attendees_heading, FormatAttendees(meeting.participants.items), <<>>>>
                ELSE <<>>)
            \o (IF InSeq(selected, JStr(s_notes)) /\ Truthy(meeting.notes)
                THEN <<s_notes_heading, meeting.notes.s, <<>>>>
                ELSE <<>>)
    IN StrJoin(<<"\n">>, parts) \o <<"\n">>)

\* render_meeting_markdown(meeting, sections=)
RenderMeetingMarkdown(meeting, sections) ==
    Bind(PyOr(sections, DefaultSections).items, LAMBDA selected :
    LET parts ==
            (IF InSeq(selected, JStr(s_header)) THEN HeaderParts(meeting) ELSE <<>>)
            \o (IF InSeq(selected, JStr(s_attendees))
                THEN <<s_attendees_heading, FormatAttendees(meeting.participants.items), <<>>>>
                ELSE <<>>)
            \o (IF InSeq(selected, JStr(s_notes)) /\ Truthy(meeting.notes)
                THEN <<s_notes_heading, meeting.notes.s, <<>>>>
                ELSE <<>>)
    IN StrStrip(StrJoin(<<"\n">>, parts)) \o <<"\n">>)

\* export_markdown(config, parser, params)
ExportMarkdown(c, f, t, params) ==
    Bind(GetMeeting(c, f, t, params), LAMBDA r :
       IF ~r.out.ok THEN r
       ELSE Effect(Ret([markdown |->
                           JStr(RenderMeetingMarkdown(r.out.val.meeting, params.sections))]),
                   r.cache, r.io))

\* meetings.py:225-228: counts[key] += 1 per record, keys in first-seen order
RECURSIVE CountByPeriod(_, _, _)
CountByPeriod(items, week, counts) ==
    IF items = <<>> THEN Ret(counts)
    ELSE Bind(ToDateKey(PyStr(PyOr(Head(items).start_ts, JStr(<<>>))), week), LAMBDA key :
            IF ~key.ok THEN key
            ELSE LET hits == {i \in 1..Len(counts) : counts[i].period = JStr(key.val)}
                 IN CountByPeriod(Tail(items), week,
                      IF hits = {}
                      THEN Append(counts, [period |-> JStr(key.val), meetings |-> 1])
                      ELSE [i \in 1..Len(counts) |->
                              IF i \in hits
                              THEN [counts[i] EXCEPT !.meetings = @ + 1]
                              ELSE counts[i]]))

\* sorted(counts.items()): ascending by period
RECURSIVE InsertByPeriod(_, _)
InsertByPeriod(sorted, x) ==
    IF sorted = <<>> THEN <<x>>
    ELSE IF StrLess(x.period.s, Head(sorted).period.s) THEN <<x>> \o sorted
    ELSE <<Head(sorted)>> \o InsertByPeriod(Tail(sorted), x)
RECURSIVE SortByPeriod(_)
SortByPeriod(counts) ==
    IF counts = <<>> THEN <<>>
    ELSE InsertByPeriod(SortByPeriod(Tail(counts)), Head(counts))

\* meetings_stats(config, parser, params)
MeetingsStats(c, f, t, params) ==
    Bind(GetMeetings(c, f, t, FALSE), LAMBDA r :
    LET week == PyOr(params.group_by, JStr(s_day)) = JStr(s_week)
    IN IF ~r.out.ok THEN r
       ELSE Bind(CountByPeriod(r.out.val, week, <<>>), LAMBDA counts :
               IF ~counts.ok THEN Effect(counts, r.cache, r.io)
               ELSE Effect(Ret([by_period |-> SortByPeriod(counts.val),
                                participants |-> JNull]),
                           r.cache, r.io)))

(***************************************************************************)
(* tools/status.py: cache_status.  use_sqlite is config.use_sqlite.        *)
(* AppConfig (config/env.py:41-99) declares no document_source, so the     *)
(* test of status.py:24 raises AttributeError once get_cache_info has run, *)
(* and lines 25-36 are never reached.                                      *)
(***************************************************************************)
CacheStatus(c, f, t, use_sqlite) ==
    Bind(GetCacheInfo(c, f, t), LAMBDA r :
       IF ~r.out.ok THEN r ELSE Effect(Raise(AttributeError), r.cache, r.io))

(***************************************************************************)
(* sources/local_file.py: LocalFileDocumentSource over the same parser.    *)
(***************************************************************************)
\* local_file.py:52-55: a document without "id" gets its key as "id", in
\* the snapshot itself
WithId(doc_key, doc) ==
    IF IsDict(doc) /\ ~HasKey(doc, s_id) THEN DictSet(doc, s_id, JStr(doc_key)) ELSE doc

\* the documents mapping after the loop of local_file.py:50-56
StampIds(documents) ==
    JDict(documents.ks, [i \in 1..DictLen(documents) |-> WithId(documents.ks[i], documents.vs[i])])

\* local_file.py:57-63
Window(docs_list, limit, offset) ==
    Bind(IF offset = JNull THEN docs_list
         ELSE PySlice(docs_list, PyInt(offset).val, Len(docs_list)), LAMBDA from :
         IF limit = JNull THEN from ELSE PySlice(from, 0, PyInt(limit).val))

\* the snapshot with state["documents"] replaced
WithDocuments(c, documents) ==
    Bind(Get(c.state, s_state), LAMBDA state :
       IF ~HasKey(state, s_documents) THEN c
       ELSE [c EXCEPT !.state = DictSet(c.state, s_state,
                                        DictSet(state, s_documents, documents))])

\* local_file.py:41-46 and 72-77: reload when forced, then the memoized load
SourceLoad(c, f, t, force) ==
    Bind(IF force THEN Reload(c, f, t) ELSE Effect(Ret(JNull), c, <<>>), LAMBDA forced :
       IF ~forced.out.ok THEN forced
       ELSE Bind(LoadCache(forced.cache, f, t, FALSE), LAMBDA ld :
                 Effect(ld.out, ld.cache, forced.io \o ld.io)))

\* LocalFileDocumentSource.get_documents(limit=, offset=, force=)
GetDocuments(c, f, t, limit, offset, force) ==
    Bind(SourceLoad(c, f, t, force), LAMBDA ld :
       IF ~ld.out.ok THEN ld
       ELSE Bind(GetOr(ld.out.val, s_state, EmptyDict), LAMBDA state :
       IF ~IsDict(state) THEN Effect(Raise(AttributeError), ld.cache, ld.io)
       ELSE Bind(GetOr(state, s_documents, EmptyDict), LAMBDA documents :
       IF ~IsDict(documents) THEN Effect(Ret(Window(<<>>, limit, offset)), ld.cache, ld.io)
       ELSE Bind(StampIds(documents), LAMBDA stamped :
                 Effect(Ret(Window(SelectSeq(stamped.vs, IsDict), limit, offset)),
                        WithDocuments(ld.cache, stamped), ld.io)))))

\* LocalFileDocumentSource.get_document_by_id(doc_id, force=)
GetDocumentById(c, f, t, doc_id, force) ==
    Bind(SourceLoad(c, f, t, force), LAMBDA ld :
       IF ~ld.out.ok THEN ld
       ELSE Bind(GetOr(ld.out.val, s_state, EmptyDict), LAMBDA state :
       IF ~IsDict(state) THEN Effect(Raise(AttributeError), ld.cache, ld.io)
       ELSE Bind(GetOr(state, s_documents, EmptyDict), LAMBDA documents :
       IF ~IsDict(documents) THEN Effect(Ret(JNull), ld.cache, ld.io)
       ELSE Bind(Get(documents, doc_id), LAMBDA doc :
       IF ~IsDict(doc) THEN Effect(Ret(JNull), ld.cache, ld.io)
       ELSE Effect(Ret(WithId(doc_id, doc)),
                   WithDocuments(ld.cache, DictSet(documents, doc_id, WithId(doc_id, doc))),
                   ld.io)))))

(***************************************************************************)
(* The inputs of the model: cache files and tool parameters.               *)
(***************************************************************************)
s_d1 == <<"d", "1">>
s_d2 == <<"d", "2">>
s_k1 == <<"k", "1">>
s_k2 == <<"k", "2">>
s_m1 == <<"m", "1">>
s_zz == <<"z", "z">>
s_Ann == <<"A", "n", "n">>
s_Bob == <<"B", "o", "b">>
s_Cy == <<"C", "y">>
s_Sync == <<"S", "y", "n", "c">>
s_Plan == <<"P", "l", "a", "n">>
s_Old == <<"O", "l", "d">>
s_New == <<"N", "e", "w">>
s_L1 == <<"L", "1">>
s_Work == <<"W", "o", "r", "k">>
s_hello == <<"h", "e", "l", "l", "o">>
s_sync == <<"s", "y", "n", "c">>
s_abc == <<"a", "b", "c">>
s_one == <<"1">>
s_x == <<"x">>
s_ts1 == <<"2", "0", "2", "5", "-", "0", "9", "-", "0", "1", "T", "1", "0", ":", "0", "0", ":", "0", "0", "Z">>
s_ts2 == <<"2", "0", "2", "5", "-", "0", "9", "-", "0", "2">>

Person(name) == JDict(<<s_name>>, <<JStr(name)>>)
Graph(state) == JDict(<<s_state>>, <<state>>)

\* two dated meetings: d1 has no "id", people and a folder; d2 has notes
GraphA ==
    Graph(JDict(
        <<s_documents, s_meetingsMetadata, s_documentLists, s_documentListsMetadata>>,
        <<JDict(<<s_d1, s_d2>>,
                <<JDict(<<s_title, s_created_at, s_people>>,
                        <<JStr(s_Sync), JStr(s_ts1), JList(<<Person(s_Ann), Person(s_Bob)>>)>>),
                  JDict(<<s_id, s_title, s_created_at, s_notes_plain>>,
                        <<JStr(s_d2), JStr(s_Plan), JStr(s_ts2), JStr(s_hello)>>)>>),
          JDict(<<s_d1>>,
                <<JDict(<<s_conference>>, <<JDict(<<s_provider>>, <<JStr(s_zoom)>>)>>)>>),
          JDict(<<s_L1>>, <<JList(<<JStr(s_d1)>>)>>),
          JDict(<<s_L1>>, <<JDict(<<s_title>>, <<JStr(s_Work)>>)>>)>>))

\* two meetings that share the id m1, and a meeting without a date
GraphB ==
    Graph(JDict(
        <<s_documents>>,
        <<JDict(<<s_k1, s_k2, s_d1>>,
                <<JDict(<<s_id, s_title, s_created_at>>,
                        <<JStr(s_m1), JStr(s_Old), JNum(86400)>>),
                  JDict(<<s_id, s_title, s_created_at>>,
                        <<JStr(s_m1), JStr(s_New), JNum(172800)>>),
                  JDict(<<s_title>>, <<JStr(s_Sync)>>)>>)>>))

Envelope(cache_field) == JText(JDict(<<s_cache>>, <<cache_field>>))

FileMissing == NoFile
FileUnreadable == File(FALSE, 1, Envelope(JText(GraphA)))
FileNotJson == File(TRUE, 2, JStr(<<"{">>))
FileNoCacheField == File(TRUE, 3, JText(JDict(<<s_x>>, <<JNull>>)))
FileCacheNotJson == File(TRUE, 4, Envelope(JStr(<<"{">>)))
FileCacheNumber == File(TRUE, 5, Envelope(JNum(5)))
FileInnerList == File(TRUE, 6, Envelope(JText(EmptyList)))
NoStatePayload == JDict(<<s_documents, s_x>>, <<EmptyDict, JNull>>)
FileNoState == File(TRUE, 7, Envelope(JText(NoStatePayload)))
FileA == File(TRUE, 8, Envelope(JText(GraphA)))
FileB == File(TRUE, 9, Envelope(GraphB))

BrokenFiles ==
    {FileMissing, FileUnreadable, FileNotJson, FileNoCacheField, FileCacheNotJson,
     FileCacheNumber, FileInnerList, FileNoState}
Files == BrokenFiles \cup {FileA, FileB}

\* ListMeetingsInput
ListParams(q, participants, limit, cursor) ==
    [q |-> q, from_ts |-> JNull, to_ts |-> JNull, participants |-> participants,
     limit |-> limit, cursor |-> cursor]
ListInputs ==
    {ListParams(JNull, JNull, JNull, JNull),
     ListParams(JNull, JNull, JNum(1), JStr(s_one)),
     ListParams(JStr(s_sync), JNull, JNull, JStr(s_abc))}

\* SearchMeetingsInput
SearchParams(q, filters, limit, cursor) ==
    [q |-> q, filters |-> filters, limit |-> limit, cursor |-> cursor]
SearchInputs ==
    {SearchParams(JStr(s_sync), JNull, JNull, JNull),
     SearchParams(JStr(<<>>), JNull, JNum(1), JStr(s_abc))}

MeetingIds == {<<>>, s_m1, s_d1, s_zz}
\* GetMeetingInput and ExportMarkdownInput
GetInputs == {[id |-> JStr(i)] : i \in MeetingIds}
ExportInputs == {[id |-> JStr(i), sections |-> JNull] : i \in {<<>>, s_d2, s_zz}}
\* StatsInput
StatsInputs == {[window |-> JNull, group_by |-> g] : g \in {JNull, JStr(s_week)}}

(***************************************************************************)
(* The state machines.  One server holds one parser (server.py:81); calls  *)
(* are processed one at a time; the environment changes the file and the   *)
(* clock between calls.  The specifications below differ in the operations *)
(* and inputs they exercise:                                               *)
(*   Spec         the parser's own operations, over every kind of file;    *)
(*   SpecTools    the tool functions and the document source;              *)
(*   SpecRepeat   repeated extraction, with the history variable seen.     *)
(***************************************************************************)
NoCall == [op |-> "none"]
\* seen is either switched off (Untracked) or records the first
\* get_meetings result on the memoized snapshot
Untracked == [on |-> FALSE]
\* no client is following a next_cursor
NoWalk == [walking |-> FALSE]
NoSeen == [on |-> TRUE, set |-> FALSE]

\* the record of a completed call; fresh says that the tool got no parser
\* and built its own (`if parser is None`), which is dropped on return
Completed(op, args, fresh, eff) ==
    [op |-> op, args |-> args, fresh |-> fresh, out |-> eff.out, io |-> eff.io]

\* history of get_meetings on the memoized snapshot: forgotten when the
\* snapshot changes; `other` records that another call ran since, `again`
\* that get_meetings then ran again with the same debug flag
SeenAfter(op, args, fresh, eff) ==
    IF ~seen.on THEN seen
    ELSE IF fresh THEN (IF seen.set THEN [seen EXCEPT !.other = TRUE] ELSE seen)
    ELSE IF eff.cache # cache \/ ~seen.set
    THEN (IF op = "get_meetings" /\ eff.cache.loaded
          THEN [on |-> TRUE, set |-> TRUE, debug |-> args.debug, out |-> eff.out,
                other |-> FALSE, again |-> FALSE]
          ELSE NoSeen)
    ELSE IF op = "get_meetings"
    THEN (IF args.debug = seen.debug /\ seen.other THEN [seen EXCEPT !.again = TRUE]
          ELSE seen)
    ELSE [seen EXCEPT !.other = TRUE]

\* a call on the server's parser
OnParser(op, args, eff) ==
    /\ cache' = eff.cache
    /\ last' = Completed(op, args, FALSE, eff)
    /\ seen' = SeenAfter(op, args, FALSE, eff)
    /\ UNCHANGED <<file, now, threads, client>>

\* a tool call: on the server's parser, or on a parser of its own
ToolStep(op, args, fresh, eff) ==
    /\ cache' = IF fresh THEN cache ELSE eff.cache
    /\ last' = Completed(op, args, fresh, eff)
    /\ seen' = SeenAfter(op, args, fresh, eff)
    /\ UNCHANGED <<file, now, threads>>

ToolCall(op, args, fresh, eff) == ToolStep(op, args, fresh, eff) /\ UNCHANGED client

\* the parser a tool works on
ParserOf(fresh) == IF fresh THEN NoCache ELSE cache

\* the environment replaces, corrupts or deletes the cache file
WriteFile(files) ==
    /\ \E f \in files \ {file} : file' = f
    /\ last' = NoCall
    /\ UNCHANGED <<cache, now, seen, threads, client>>

\* time passes
Tick ==
    /\ now < MaxTime
    /\ now' = now + 1
    /\ last' = NoCall
    /\ UNCHANGED <<file, cache, seen, threads, client>>

LoadCacheCall ==
    \E force_reload \in BOOLEAN :
        OnParser("load_cache", [force_reload |-> force_reload],
                 LoadCache(cache, file, now, force_reload))

ReloadCall == OnParser("reload", <<>>, Reload(cache, file, now))

ValidateCacheStructureCall ==
    OnParser("validate_cache_structure", <<>>, ValidateCacheStructure(cache, file, now))

GetCacheInfoCall == OnParser("get_cache_info", <<>>, GetCacheInfo(cache, file, now))

GetMeetingsCall ==
    \E debug \in BOOLEAN :
        OnParser("get_meetings", [debug |-> debug], GetMeetings(cache, file, now, debug))

GetMeetingByIdCall ==
    \E meeting_id \in MeetingIds :
        OnParser("get_meeting_by_id", [meeting_id |-> meeting_id],
                 GetMeetingById(cache, file, now, meeting_id))

ListMeetingsCall ==
    \E fresh \in BOOLEAN, params \in ListInputs :
        ToolCall("list_meetings", params, fresh,
                 ListMeetings(ParserOf(fresh), file, now, params))

SearchMeetingsCall ==
    \E fresh \in BOOLEAN, params \in SearchInputs :
        ToolCall("search_meetings", params, fresh,
                 SearchMeetings(ParserOf(fresh), file, now, params))

GetMeetingCall ==
    \E fresh \in BOOLEAN, params \in GetInputs :
        ToolCall("get_meeting", params, fresh,
                 GetMeeting(ParserOf(fresh), file, now, params))

ExportMarkdownCall ==
    \E fresh \in BOOLEAN, params \in ExportInputs :
        ToolCall("export_markdown", params, fresh,
                 ExportMarkdown(ParserOf(fresh), file, now, params))

MeetingsStatsCall ==
    \E fresh \in BOOLEAN, params \in StatsInputs :
        ToolCall("meetings_stats", params, fresh,
                 MeetingsStats(ParserOf(fresh), file, now, params))

CacheStatusCall ==
    \E fresh \in BOOLEAN, use_sqlite \in BOOLEAN :
        ToolCall("cache_status", [use_sqlite |-> use_sqlite], fresh,
                 CacheStatus(ParserOf(fresh), file, now, use_sqlite))

\* LocalFileDocumentSource.refresh_cache (local_file.py:88-90): reload(),
\* whose graph is dropped
RefreshCache(c, f, t) ==
    Bind(Reload(c, f, t), LAMBDA r :
       IF ~r.out.ok THEN r ELSE Effect(Ret(JNull), r.cache, r.io))

RefreshCacheCall == OnParser("refresh_cache", <<>>, RefreshCache(cache, file, now))

GetDocumentsCall ==
    \E force \in BOOLEAN, window \in {<<JNull, JNull>>, <<JNum(1), JNum(1)>>} :
        OnParser("get_documents",
                 [limit |-> window[1], offset |-> window[2], force |-> force],
                 GetDocuments(cache, file, now, window[1], window[2], force))

GetDocumentByIdCall ==
    \E force \in BOOLEAN, doc_id \in {s_d1, s_zz} :
        OnParser("get_document_by_id", [doc_id |-> doc_id, force |-> force],
                 GetDocumentById(cache, file, now, doc_id, force))

InitWith(files, history) ==
    /\ file \in files
    /\ cache = NoCache
    /\ now = 0
    /\ last = NoCall
    /\ seen = history
    /\ threads = <<>>
    /\ client = NoWalk

Init == InitWith(Files, Untracked)

Next ==
    \/ WriteFile(Files)
    \/ Tick
    \/ LoadCacheCall
    \/ ReloadCall
    \/ ValidateCacheStructureCall
    \/ GetCacheInfoCall
    \/ GetMeetingsCall
    \/ GetMeetingByIdCall

Spec == Init /\ [][Next]_vars

ToolFiles == {FileMissing, FileNotJson, FileA, FileB}

InitTools == InitWith(ToolFiles, Untracked)

NextTools ==
    \/ WriteFile(ToolFiles)
    \/ LoadCacheCall
    \/ ReloadCall
    \/ ListMeetingsCall
    \/ SearchMeetingsCall
    \/ GetMeetingCall
    \/ ExportMarkdownCall
    \/ MeetingsStatsCall
    \/ CacheStatusCall
    \/ GetDocumentsCall
    \/ GetDocumentByIdCall
    \/ RefreshCacheCall

SpecTools == InitTools /\ [][NextTools]_vars

RepeatFiles == {FileNotJson, FileA, FileB}

InitRepeat == InitWith(RepeatFiles, NoSeen)

NextRepeat ==
    \/ WriteFile(RepeatFiles)
    \/ ReloadCall
    \/ GetMeetingsCall
    \/ ListMeetingsCall
    \/ GetMeetingCall
    \/ MeetingsStatsCall
    \/ CacheStatusCall
    \/ GetDocumentsCall

SpecRepeat == InitRepeat /\ [][NextRepeat]_vars


(***************************************************************************)
(* SpecExtract: get_meetings over graphs that load_cache accepts and whose *)
(* optional fields and side mappings hold absent, null, well-formed and    *)
(* malformed values.  Each graph has the document d1, built from the       *)
(* choices, and the well-formed document d2.                               *)
(***************************************************************************)
Absent == [t |-> "absent"]

\* a dict of the entries whose value is not Absent
RECURSIVE OptDict(_, _)
OptDict(ks, vs) ==
    IF ks = <<>> THEN EmptyDict
    ELSE IF Head(vs) = Absent THEN OptDict(Tail(ks), Tail(vs))
    ELSE JDict(<<Head(ks)>> \o OptDict(Tail(ks), Tail(vs)).ks,
               <<Head(vs)>> \o OptDict(Tail(ks), Tail(vs)).vs)

s_p1 == <<"p", "1">>

CreatedChoices ==
    {Absent, JNull, JStr(s_ts1), JStr(s_abc), JNum(86400), JBig(1000 * Million, 0),
     EmptyList, JBool(TRUE)}
PeopleChoices ==
    {Absent, JNull, EmptyList,
     JList(<<Person(s_Ann), Person(s_Bob), Person(s_Ann)>>),
     JList(<<JStr(s_x), Person(<<>>)>>),
     JList(<<JDict(<<s_name>>, <<JList(<<JStr(s_Ann)>>)>>)>>),
     JStr(s_x)}
AttendeeChoices ==
    {Absent, JNull,
     JList(<<Person(s_Bob), Person(s_Cy), Person(s_Bob)>>),
     JList(<<JDict(<<s_name>>, <<JList(<<JStr(s_Cy)>>)>>)>>),
     JStr(s_x)}
ProviderChoices ==
    {Absent, JNull, JStr(s_zoom), JStr(s_google_meet), JStr(s_x),
     JList(<<JStr(s_zoom)>>), EmptyList}
ListChoices ==
    {Absent, JNull, JList(<<JStr(s_d1)>>), JList(<<JList(<<JStr(s_x)>>)>>), JStr(s_x)}
PanelChoices ==
    {Absent, JNull, JStr(s_x),
     JDict(<<s_d1>>, <<JDict(<<s_p1>>, <<JDict(<<s_original_content>>, <<JNum(5)>>)>>)>>),
     JDict(<<s_d1>>, <<JDict(<<s_p1>>, <<JDict(<<s_original_content>>, <<JStr(s_hello)>>)>>)>>)}
ListMetaChoices == {Absent, JNull, JDict(<<s_L1>>, <<JStr(s_x)>>),
                    JDict(<<s_L1>>, <<JDict(<<s_title>>, <<JStr(s_Work)>>)>>)}

DocD2 ==
    JDict(<<s_id, s_title, s_created_at, s_notes_plain>>,
          <<JStr(s_d2), JStr(s_Plan), JStr(s_ts2), JStr(s_hello)>>)

ExtractGraph(created, people, attendees, provider, lists, panels, lists_meta) ==
    Graph(OptDict(
        <<s_documents, s_meetingsMetadata, s_documentLists, s_documentPanels,
          s_documentListsMetadata>>,
        <<JDict(<<s_d1, s_d2>>,
                <<OptDict(<<s_title, s_created_at, s_people>>,
                          <<JStr(s_Sync), created, people>>),
                  DocD2>>),
          JDict(<<s_d1>>,
                <<OptDict(<<s_attendees, s_conference>>,
                          <<attendees,
                            IF provider = Absent THEN Absent
                            ELSE JDict(<<s_provider>>, <<provider>>)>>)>>),
          IF lists = Absent THEN Absent ELSE JDict(<<s_L1>>, <<lists>>),
          panels,
          lists_meta>>))

\* the graphs: the choices of two or three fields at a time, the other
\* fields well-formed
ExtractGraphs ==
    {ExtractGraph(JStr(s_ts1), p, a, JStr(s_zoom), Absent, Absent, Absent) :
        p \in PeopleChoices, a \in AttendeeChoices}
    \cup {ExtractGraph(c, Absent, Absent, v, Absent, Absent, Absent) :
        c \in CreatedChoices, v \in ProviderChoices}
    \cup {ExtractGraph(JStr(s_ts1), Absent, Absent, Absent, l, Absent, m) :
        l \in ListChoices, m \in ListMetaChoices}
    \cup {ExtractGraph(Absent, Absent, Absent, Absent, Absent, n, Absent) :
        n \in PanelChoices}

ExtractFiles == {File(TRUE, 10, Envelope(JText(g))) : g \in ExtractGraphs}

InitExtract == InitWith(ExtractFiles, Untracked)

NextExtract ==
    \/ LoadCacheCall
    \/ GetMeetingsCall
    \/ GetMeetingByIdCall

SpecExtract == InitExtract /\ [][NextExtract]_vars

(***************************************************************************)
(* SpecConc: several threads call one parser at once.  load_cache takes no *)
(* lock; a thread is pre-empted between its reads and writes of            *)
(* parser._cache, which are single attribute loads and stores:             *)
(*   check    `self._cache is not None and not force_reload` (line 115)    *)
(*   fetch    `return self._cache.state` (line 116)                        *)
(*   read     lines 122-165: the file is read, decoded and validated       *)
(*   assign   `self._cache = CacheState(...)` (line 167)                   *)
(*   extract  get_meetings walks the graph load_cache returned             *)
(* A thread that is to take the memoized graph records in `during` every   *)
(* value parser._cache has had since its call began; `current` then says   *)
(* whether the graph it holds is the graph of one of them, or of the       *)
(* snapshot it stored itself.                                              *)
(***************************************************************************)
NumThreads == 2

Idle == [pc |-> "idle"]
ConcOps == {"reload", "load_cache", "get_meetings"}
Readers == {"load_cache", "get_meetings"}
ConcFiles == {FileNotJson, FileA, FileB}

ThreadIds == 1..NumThreads

\* the thread's own step; the threads that have yet to take their graph
\* note the value of _cache
Step(i, th, c) ==
    /\ threads' = [j \in ThreadIds |->
                     IF j = i THEN th
                     ELSE IF threads[j].pc \in {"check", "fetch"}
                     THEN [threads[j] EXCEPT !.during = @ \cup {c}]
                     ELSE threads[j]]
    /\ cache' = c
    /\ UNCHANGED <<file, now, last, seen, client>>

\* the thread holds the graph load_cache returned, taken from the value c of
\* _cache: a load_cache call is done, a get_meetings call goes on to walk it
Loaded(th, inner, c) ==
    [th EXCEPT !.pc = IF th.op = "get_meetings" THEN "extract" ELSE "done",
               !.graph = inner,
               !.out = Ret(inner),
               !.current = \E d \in th.during \cup {c} : d.loaded /\ d.state = inner,
               !.during = {}]

Call(i) ==
    /\ threads[i].pc = "idle"
    /\ \E op \in ConcOps :
         Step(i, [pc |-> "check", op |-> op, during |-> {cache}, graph |-> JNull,
                  out |-> Ret(JNull), current |-> FALSE], cache)

CheckMemo(i) ==
    /\ threads[i].pc = "check"
    /\ IF Memoized(cache, threads[i].op = "reload")
       THEN Step(i, [threads[i] EXCEPT !.pc = "fetch"], cache)
       ELSE Step(i, [threads[i] EXCEPT !.pc = "read", !.during = {}], cache)

FetchMemo(i) ==
    /\ threads[i].pc = "fetch"
    /\ Step(i, Loaded(threads[i], cache.state, cache), cache)

ReadFile(i) ==
    /\ threads[i].pc = "read"
    /\ Bind(LoadCache(NoCache, file, now, TRUE), LAMBDA eff :
         IF eff.out.ok
         THEN Step(i, [threads[i] EXCEPT !.pc = "assign", !.graph = eff.out.val], cache)
         ELSE Step(i, [threads[i] EXCEPT !.pc = "done", !.out = eff.out],
                   KeepSnapshot(cache)))

Assign(i) ==
    /\ threads[i].pc = "assign"
    /\ Bind(StoreSnapshot(cache, threads[i].graph, now), LAMBDA c :
         Step(i, Loaded(threads[i], threads[i].graph, c), c))

Extract(i) ==
    /\ threads[i].pc = "extract"
    /\ Step(i, [threads[i] EXCEPT !.pc = "done",
                                  !.out = ExtractMeetings(threads[i].graph, FALSE)], cache)

Return(i) ==
    /\ threads[i].pc = "done"
    /\ Step(i, Idle, cache)

Replace ==
    /\ \E f \in ConcFiles \ {file} : file' = f
    /\ UNCHANGED <<cache, now, last, seen, threads, client>>

InitConc ==
    /\ file \in ConcFiles
    /\ cache = NoCache
    /\ now = 0
    /\ last = NoCall
    /\ seen = Untracked
    /\ threads = [i \in ThreadIds |-> Idle]
    /\ client = NoWalk

NextConc ==
    \/ Replace
    \/ \E i \in ThreadIds : Call(i)
    \/ \E i \in ThreadIds : CheckMemo(i)
    \/ \E i \in ThreadIds : FetchMemo(i)
    \/ \E i \in ThreadIds : ReadFile(i)
    \/ \E i \in ThreadIds : Assign(i)
    \/ \E i \in ThreadIds : Extract(i)
    \/ \E i \in ThreadIds : Return(i)

SpecConc == InitConc /\ [][NextConc]_vars

(***************************************************************************)
(* Properties.  A property on a step reads the state before the call       *)
(* (cache, file, now) and the completed call (last').                      *)
(***************************************************************************)
QueryOps ==
    {"list_meetings", "get_meeting", "search_meetings", "export_markdown",
     "meetings_stats", "cache_status"}

\* the call is load_cache(force_reload=True) or reload()
ForcedLoad(call) ==
    call.op = "reload" \/ (call.op = "load_cache" /\ call.args.force_reload)

\* the call opened the cache file
OpensFile(call) == InSeq(call.io, "open")

(***************************************************************************)
(* C1 - memoization.                                                       *)
(***************************************************************************)
\* C1: while a snapshot is memoized, load_cache(force_reload=False) returns
\* the memoized graph, makes no storage call and leaves the snapshot as it
\* is, whatever the file holds by then; and a parser call that opens the
\* file while a snapshot is memoized is load_cache(force_reload=True) or
\* reload().
C1_MemoizedLoad ==
    [][/\ (cache.loaded /\ last'.op = "load_cache" /\ ~last'.args.force_reload)
            => (last'.out = Ret(cache.state) /\ last'.io = <<>> /\ cache' = cache)
       /\ (cache.loaded /\ last'.op # "none" /\ OpensFile(last'))
            => ForcedLoad(last')]_vars

\* a memoized load answered from the snapshot after the file was deleted or
\* corrupted
C1_Witness ==
    /\ last.op = "load_cache" /\ ~last.args.force_reload
    /\ cache.loaded /\ last.out = Ret(cache.state) /\ last.io = <<>>
    /\ file \in BrokenFiles

(***************************************************************************)
(* C2 - a failed reload.                                                   *)
(***************************************************************************)
\* C2: with a snapshot memoized, load_cache(force_reload=True) or reload()
\* on a file that fails any check raises an IO_ERROR (it does not return
\* the memoized graph); and whenever such a call raises, the snapshot, its
\* graph and its load timestamp, is unchanged and a following
\* load_cache(force_reload=False) returns the previous graph.
C2_FailedReload ==
    [][(cache.loaded /\ last'.op # "none" /\ ForcedLoad(last'))
         => /\ file \in BrokenFiles
                => (~last'.out.ok /\ last'.out.err.code = "IO_ERROR")
            /\ ~last'.out.ok
                => /\ cache' = cache
                   /\ LoadCache(cache', file', now', FALSE).out = Ret(cache.state)]_vars

\* a reload failed later than the snapshot was loaded, and the snapshot is
\* still there with its earlier timestamp
C2_Witness ==
    /\ last.op = "reload" /\ ~last.out.ok
    /\ cache.loaded /\ cache.loaded_at < now

(***************************************************************************)
(* C3 - concurrent loads and readers.                                      *)
(***************************************************************************)
\* the graphs of the files that load
CompleteGraphs == {GraphA, GraphB}

\* C3: in every interleaving of reloading and reading threads, the memoized
\* snapshot is the complete graph of one file, and a reader (load_cache(),
\* get_meetings) that returns has observed one complete graph, which was
\* the memoized graph at some moment of its call (the old one or a new
\* one); get_meetings returns the extraction of that graph.
C3_AtomicSnapshot ==
    /\ cache.loaded => cache.state \in CompleteGraphs
    /\ \A i \in ThreadIds :
         (threads[i].pc = "done" /\ threads[i].op \in Readers /\ threads[i].out.ok)
           => /\ threads[i].graph \in CompleteGraphs
              /\ threads[i].current
              /\ threads[i].out = IF threads[i].op = "get_meetings"
                                  THEN ExtractMeetings(threads[i].graph, FALSE)
                                  ELSE Ret(threads[i].graph)

\* a get_meetings call returned the extraction of the old graph after
\* another thread had stored the new one
C3_Witness ==
    \E i \in ThreadIds :
        /\ threads[i].pc = "done" /\ threads[i].op = "get_meetings"
        /\ threads[i].graph = GraphA /\ threads[i].current
        /\ threads[i].out = ExtractMeetings(GraphA, FALSE)
        /\ cache.loaded /\ cache.state = GraphB

(***************************************************************************)
(* C4 - malformed storage.                                                 *)
(***************************************************************************)
\* C4: a load_cache call that reads the file (none memoized, or forced)
\* when the file is missing, unreadable, not JSON, without "cache", with a
\* nested payload that is not JSON, not an object or without "state",
\* raises an error of code IO_ERROR and leaves parser._cache as it was;
\* for the payload without "state" the details list the payload's keys
\* under inner_keys.
C4_MalformedIsIoError ==
    [][(/\ last'.op \in {"load_cache", "reload"}
        /\ (~cache.loaded \/ ForcedLoad(last'))
        /\ file \in BrokenFiles)
         => /\ ~last'.out.ok
            /\ last'.out.err.code = "IO_ERROR"
            /\ cache' = cache
            /\ file = FileNoState
                 => Get(last'.out.err.details, s_inner_keys) = KeyList(NoStatePayload)]_vars

\* the first load of a payload without "state" failed with the keys listed
C4_Witness ==
    /\ last.op = "load_cache" /\ file = FileNoState /\ cache = NoCache
    /\ ~last.out.ok /\ last.out.err.code = "IO_ERROR"
    /\ Get(last.out.err.details, s_inner_keys) = JList(<<JStr(s_documents), JStr(s_x)>>)

(***************************************************************************)
(* C5 - malformed optional fields.                                         *)
(***************************************************************************)
\* C5: get_meetings on a graph that load_cache accepted returns, and its
\* records include the one of every document (d1 and d2), whatever the
\* optional fields and side mappings of d1 hold.
C5_NeverRaises ==
    (last.op = "get_meetings" /\ cache.loaded)
      => /\ last.out.ok
         /\ \A k \in {s_d1, s_d2} :
              \E i \in 1..Len(last.out.val) : last.out.val[i].id = JStr(k)

(***************************************************************************)
(* C6 - repeatable extraction.                                             *)
(***************************************************************************)
\* C6: while the memoized snapshot stays the same, a get_meetings call
\* returns what the first get_meetings call on that snapshot with the same
\* debug flag returned: equal records in the same order, whatever calls ran
\* in between and whatever the file holds by then.
C6_Repeatable ==
    [][(/\ seen.on /\ seen.set
        /\ last'.op = "get_meetings" /\ last'.args.debug = seen.debug
        /\ cache.loaded /\ cache' = cache)
         => last'.out = seen.out]_vars

\* get_meetings ran, other calls ran, the file was corrupted, and
\* get_meetings ran again on the same snapshot
C6_Witness ==
    /\ seen.on /\ seen.set /\ seen.other /\ seen.again
    /\ last.op = "get_meetings" /\ last.out.ok /\ last.out = seen.out
    /\ Len(last.out.val) > 1
    /\ file = FileNotJson

(***************************************************************************)
(* C7 - queries and loading.                                               *)
(***************************************************************************)
\* the query is rejected before it touches the parser (meetings.py:126, 198)
RejectedEarly(call) ==
    call.op \in {"get_meeting", "export_markdown"} /\ ~Truthy(call.args.id)

\* C7 as stated: no query opens the cache file or sets the snapshot.
C7_QueriesNeverLoad ==
    [][last'.op \in QueryOps => (~OpensFile(last') /\ cache' = cache)]_vars

\* C7, amended: a query on a parser that holds a memoized snapshot does not
\* open the file and leaves the snapshot as it is; a query on a parser that
\* holds none performs the load itself, unless it is rejected first: it
\* opens the file when the file is readable, and the server's parser ends
\* with what load_cache() sets.  A query given no parser never touches the
\* server's parser.
C7_QueriesNeverReload ==
    [][last'.op \in QueryOps
         => /\ (~last'.fresh /\ cache.loaded) => (~OpensFile(last') /\ cache' = cache)
            /\ last'.fresh => cache' = cache
            /\ ((last'.fresh \/ ~cache.loaded) /\ RejectedEarly(last'))
                 => (last'.io = <<>> /\ cache' = cache)
            /\ ((last'.fresh \/ ~cache.loaded) /\ ~RejectedEarly(last'))
                 => /\ OpensFile(last') <=> Readable(file)
                    /\ ~last'.fresh => cache' = LoadCache(cache, file, now, FALSE).cache]_vars

\* a query answered from the memoized snapshot, without opening the file,
\* after the file was deleted or corrupted
C7_Witness ==
    /\ last.op \in QueryOps /\ ~last.fresh /\ last.out.ok
    /\ cache.loaded /\ ~OpensFile(last)
    /\ file \in {FileMissing, FileNotJson}

(***************************************************************************)
(* C8 - the outcome of a tool call.                                        *)
(***************************************************************************)
\* C8: every tool call returns, or raises an error whose code is one of
\* BAD_REQUEST, NOT_FOUND, IO_ERROR, TIMEOUT.
C8_StructuredOutcome ==
    last.op \in QueryOps => (last.out.ok \/ last.out.err.code \in ErrorCodes)

(***************************************************************************)
(* C9 - lookup by id.                                                      *)
(***************************************************************************)
\* the records get_meetings gives the call's parser before the call
RecordsFor(fresh) == GetMeetings(IF fresh THEN NoCache ELSE cache, file, now, FALSE).out

\* the outcome the claim gives get_meeting(id) over the records items: the
\* full record of the first one with that id, NOT_FOUND with the id when
\* there is none
IsLookupOf(out, items, id) ==
    IF \E i \in 1..Len(items) : items[i].id = id
    THEN \E i \in 1..Len(items) :
            /\ items[i].id = id
            /\ \A j \in 1..(i - 1) : items[j].id # id
            /\ out = Ret([meeting |-> ToMeeting(items[i])])
    ELSE /\ ~out.ok
         /\ out.err.code = "NOT_FOUND"
         /\ out.err.details = JDict(<<s_id>>, <<id>>)

\* C9 as stated: whenever the records can be extracted, get_meeting(id)
\* returns the first record with that id, or fails with NOT_FOUND.
C9_LookupOrNotFound ==
    [][(last'.op = "get_meeting" /\ RecordsFor(last'.fresh).ok)
         => IsLookupOf(last'.out, RecordsFor(last'.fresh).val, last'.args.id)]_vars

\* C9, amended: get_meeting with an empty id fails with BAD_REQUEST without
\* touching the parser; with a non-empty id, when the records can be
\* extracted it returns the full record of the first one with that id, or
\* fails with NOT_FOUND carrying the id, and otherwise it raises what
\* get_meetings raises; it never returns a success without a meeting.
C9_Lookup ==
    [][last'.op = "get_meeting"
         => /\ ~Truthy(last'.args.id)
                 => (/\ ~last'.out.ok /\ last'.out.err.code = "BAD_REQUEST"
                     /\ last'.io = <<>> /\ cache' = cache)
            /\ (Truthy(last'.args.id) /\ RecordsFor(last'.fresh).ok)
                 => IsLookupOf(last'.out, RecordsFor(last'.fresh).val, last'.args.id)
            /\ (Truthy(last'.args.id) /\ ~RecordsFor(last'.fresh).ok)
                 => last'.out = RecordsFor(last'.fresh)
            /\ last'.out.ok => last'.out.val.meeting.id = last'.args.id]_vars

\* of two records with the id m1, get_meeting returned the first in
\* extraction order, the later meeting
C9_Witness ==
    /\ last.op = "get_meeting" /\ last.args.id = JStr(s_m1)
    /\ last.out.ok
    /\ last.out.val.meeting.id = JStr(s_m1)
    /\ last.out.val.meeting.title = JStr(s_New)

(***************************************************************************)
(* C10 - participants of a document with people and attendees.             *)
(***************************************************************************)
\* the names of a list of entries: the non-empty str names of its dicts
Named(entries) ==
    SelectSeq(entries, LAMBDA e : IsDict(e) /\ Get(e, s_name).t = "str" /\ Truthy(Get(e, s_name)))
Names(entries) == [i \in 1..Len(Named(entries)) |-> Get(Named(entries)[i], s_name)]

\* the first occurrences of the names, and the names of more appended to
\* base when new
RECURSIVE AppendNew(_, _)
AppendNew(base, more) ==
    IF more = <<>> THEN base
    ELSE IF InSeq(base, Head(more)) THEN AppendNew(base, Tail(more))
    ELSE AppendNew(Append(base, Head(more)), Tail(more))
FirstSeen(names) == AppendNew(<<>>, names)

\* the memoized graph gives d1 a non-empty people list without unhashable
\* names and an attendee list that has names
PeopleOfD1 == Get(Get(Get(Get(cache.state, s_state), s_documents), s_d1), s_people)
AttendeesOfD1 ==
    Get(Get(Get(Get(cache.state, s_state), s_meetingsMetadata), s_d1), s_attendees)
HasBoth ==
    /\ cache.loaded
    /\ IsList(PeopleOfD1) /\ PeopleOfD1.items # <<>>
    /\ \A i \in 1..Len(PeopleOfD1.items) :
         IsDict(PeopleOfD1.items[i]) => IsStr(Get(PeopleOfD1.items[i], s_name))
    /\ IsList(AttendeesOfD1) /\ Names(AttendeesOfD1.items) # <<>>

\* the participants of the record of d1 that get_meetings returned
ParticipantsOfD1 ==
    LET i == CHOOSE k \in 1..Len(last.out.val) : last.out.val[k].id = JStr(s_d1)
    IN last.out.val[i].participants

\* C10 as stated: with people and attendees, the participants are the
\* embedded names followed by the attendee names that are new.
C10_EmbeddedThenAttendees ==
    (last.op = "get_meetings" /\ last.out.ok /\ HasBoth)
      => ParticipantsOfD1 =
           JList(AppendNew(FirstSeen(Names(PeopleOfD1.items)), Names(AttendeesOfD1.items)))

\* C10, amended: with people and attendees, the participants are the
\* embedded names alone (first occurrences, in order) when the people list
\* yields a name; the attendee names (first occurrences, in order) are used
\* only when it yields none.
C10_EmbeddedOrAttendees ==
    (last.op = "get_meetings" /\ last.out.ok /\ HasBoth)
      => ParticipantsOfD1 =
           JList(IF Names(PeopleOfD1.items) # <<>>
                 THEN FirstSeen(Names(PeopleOfD1.items))
                 ELSE FirstSeen(Names(AttendeesOfD1.items)))

\* people Ann, Bob, Ann and attendees Bob, Cy, Bob gave Ann, Bob
C10_Witness ==
    /\ last.op = "get_meetings" /\ last.out.ok /\ HasBoth
    /\ Names(PeopleOfD1.items) = <<JStr(s_Ann), JStr(s_Bob), JStr(s_Ann)>>
    /\ Names(AttendeesOfD1.items) = <<JStr(s_Bob), JStr(s_Cy), JStr(s_Bob)>>
    /\ ParticipantsOfD1 = JList(<<JStr(s_Ann), JStr(s_Bob)>>)

(***************************************************************************)
(* SpecRecords: get_meetings over graphs that vary one group of fields at  *)
(* a time: the people and attendee lists, the conference provider, the     *)
(* note fields and panels, the folder lists, the creation timestamps.      *)
(***************************************************************************)
s_ann == <<"a", "n", "n">>

\* people and attendees: d1 with or without an "id" (m1), the metadata
\* keyed by the document key and by the id
NamedPeopleChoices ==
    {Absent, JNull, EmptyList, JStr(s_x),
     JList(<<JStr(s_x), Person(<<>>), EmptyDict>>),
     JList(<<Person(s_Ann), Person(s_ann), Person(s_Ann)>>),
     JList(<<Person(s_Ann), Person(s_Bob), Person(s_Ann)>>)}
NamedAttendeeChoices ==
    {Absent, JNull, EmptyList, JStr(s_x),
     JList(<<Person(s_Bob), JStr(s_x), Person(s_Cy), Person(<<>>), Person(s_Bob)>>)}

PeopleGraph(id, people, attendees) ==
    Graph(JDict(
        <<s_documents, s_meetingsMetadata>>,
        <<JDict(<<s_d1, s_d2>>,
                <<OptDict(<<s_id, s_title, s_created_at, s_people>>,
                          <<id, JStr(s_Sync), JStr(s_ts1), people>>),
                  DocD2>>),
          JDict(<<s_d1, s_m1>>,
                <<OptDict(<<s_attendees>>, <<attendees>>),
                  JDict(<<s_attendees>>, <<JList(<<Person(s_Cy), Person(s_Ann)>>)>>)>>)>>))

PeopleGraphs ==
    {PeopleGraph(id, p, a) :
        id \in {Absent, JStr(s_m1)}, p \in NamedPeopleChoices, a \in NamedAttendeeChoices}

\* the conference provider and the shapes around it
ProviderValues ==
    {Absent, JNull, JStr(<<>>), JStr(s_google_meet), JStr(s_zoom), JStr(s_teams),
     JStr(s_meet), JStr(s_x), JNum(5), JNum(0)}
ConferenceChoices ==
    {Absent, JNull, JStr(s_x)} \cup {OptDict(<<s_provider>>, <<v>>) : v \in ProviderValues}
MetadataChoices ==
    {Absent, JNull, EmptyList,
     JDict(<<s_d1>>, <<JNull>>),
     JDict(<<s_d1>>, <<JStr(s_x)>>),
     JDict(<<s_d2>>, <<JDict(<<s_conference>>, <<JDict(<<s_provider>>, <<JStr(s_zoom)>>)>>)>>)}
    \cup {JDict(<<s_d1>>, <<OptDict(<<s_conference>>, <<c>>)>>) : c \in ConferenceChoices}

PlatformGraph(metadata_map, people) ==
    Graph(OptDict(
        <<s_documents, s_meetingsMetadata>>,
        <<JDict(<<s_d1, s_d2>>,
                <<OptDict(<<s_title, s_created_at, s_people>>,
                          <<JStr(s_Sync), JStr(s_ts1), people>>),
                  DocD2>>),
          metadata_map>>))

PlatformGraphs ==
    {PlatformGraph(m, p) :
        m \in MetadataChoices, p \in {Absent, JList(<<Person(s_Ann)>>)}}

\* the note fields and the panels of d1
s_blank == <<" ", " ">>
s_padded == <<" ", "x", " ">>
s_padded_hr == <<" ", "<", "h", "r", ">", " ">>
PanelKey(i) == <<"p", DigitChar(i)>>

\* a panel with that original_content; Absent stands for a panel that is
\* not an object
Panel(content) ==
    IF content = Absent THEN JStr(s_x) ELSE JDict(<<s_original_content>>, <<content>>)
PanelsOf(contents) ==
    JDict([i \in 1..Len(contents) |-> PanelKey(i)],
          [i \in 1..Len(contents) |-> Panel(contents[i])])

PanelContentChoices ==
    {<<>>,
     <<JStr(s_hr)>>,
     <<JStr(s_padded)>>,
     <<JStr(s_padded_hr), JStr(s_abc)>>,
     <<JStr(s_blank), JStr(s_hello)>>,
     <<Absent, JNum(5), JNull, JStr(<<>>), JStr(s_hr), JStr(s_abc), JStr(s_x)>>}
PanelMapChoices ==
    {Absent, JNull, JDict(<<s_d1>>, <<JStr(s_x)>>),
     JDict(<<s_d2>>, <<PanelsOf(<<JStr(s_abc)>>)>>)}
    \cup {JDict(<<s_d1>>, <<PanelsOf(c)>>) : c \in PanelContentChoices}

NotesGraph(notes_plain, notes_markdown, panels_map) ==
    Graph(OptDict(
        <<s_documents, s_documentPanels>>,
        <<JDict(<<s_d1, s_d2>>,
                <<OptDict(<<s_title, s_created_at, s_notes_plain, s_notes_markdown>>,
                          <<JStr(s_Sync), JStr(s_ts1), notes_plain, notes_markdown>>),
                  DocD2>>),
          panels_map>>))

NotesGraphs ==
    {NotesGraph(p, m, n) :
        p \in {Absent, JNull, JStr(<<>>), JStr(s_hello)},
        m \in {Absent, JStr(<<>>), JStr(s_sync)},
        n \in PanelMapChoices}

\* the folder lists L1 and L2 and their metadata
s_L2 == <<"L", "2">>
MemberChoices ==
    {Absent, JStr(s_x), JList(<<JStr(s_d1)>>), JList(<<JStr(s_d2), JStr(s_d1)>>)}
FolderTitle(title) == JDict(<<s_title>>, <<JStr(title)>>)
ListsMetadataChoices ==
    {Absent, JNull, JStr(s_x),
     JDict(<<s_L1>>, <<FolderTitle(s_Work)>>),
     JDict(<<s_L1, s_L2>>, <<JStr(s_x), FolderTitle(s_Plan)>>)}

FolderGraph(members1, members2, lists_meta) ==
    Graph(OptDict(
        <<s_documents, s_documentLists, s_documentListsMetadata>>,
        <<JDict(<<s_d1, s_d2>>,
                <<JDict(<<s_title, s_created_at>>, <<JStr(s_Sync), JStr(s_ts1)>>), DocD2>>),
          OptDict(<<s_L1, s_L2>>, <<members1, members2>>),
          lists_meta>>))

FolderGraphs ==
    {FolderGraph(a, b, m) :
        a \in MemberChoices, b \in MemberChoices, m \in ListsMetadataChoices}

\* the creation timestamps of three documents
TimestampChoices == {Absent, JStr(s_ts1), JStr(s_ts2), JStr(s_abc)}
Dated(title, created) == OptDict(<<s_title, s_created_at>>, <<JStr(title), created>>)
OrderGraph(created1, created2, created3) ==
    Graph(JDict(
        <<s_documents>>,
        <<JDict(<<s_k1, s_k2, s_d1>>,
                <<Dated(s_Old, created1), Dated(s_New, created2), Dated(s_Sync, created3)>>)>>))

OrderGraphs ==
    {OrderGraph(a, b, c) :
        a \in TimestampChoices, b \in TimestampChoices, c \in TimestampChoices}

RecordGraphs == PeopleGraphs \cup PlatformGraphs \cup NotesGraphs \cup FolderGraphs \cup OrderGraphs
RecordFiles == {File(TRUE, 11, Envelope(JText(g))) : g \in RecordGraphs}

InitRecords == InitWith(RecordFiles, Untracked)

NextRecords ==
    \/ LoadCacheCall
    \/ GetMeetingsCall

SpecRecords == InitRecords /\ [][NextRecords]_vars

(***************************************************************************)
(* Properties of the records.  They read the memoized graph and the        *)
(* records a get_meetings call returned.                                   *)
(***************************************************************************)
\* v[k] when v is an object that has k, else null
Field(v, k) == IF IsDict(v) /\ HasKey(v, k) THEN Get(v, k) ELSE JNull

\* get_meetings returned the records of the memoized graph
Returned == last.op = "get_meetings" /\ last.out.ok /\ cache.loaded

\* the documents of the memoized graph, their number, and the identifier of
\* the i-th: its "id", else its key
DocumentsOf == Field(Field(cache.state, s_state), s_documents)
DocCount == IF IsDict(DocumentsOf) THEN DictLen(DocumentsOf) ELSE 0
DocAt(i) == DocumentsOf.vs[i]
IdAt(i) == IF IsStr(Field(DocAt(i), s_id)) THEN Field(DocAt(i), s_id).s ELSE DocumentsOf.ks[i]

\* the returned record with that identifier (the graphs give each document
\* its own identifier)
RecordOf(id) == last.out.val[CHOOSE k \in 1..Len(last.out.val) : last.out.val[k].id = JStr(id)]

\* the side mapping's entry for an identifier
SideEntry(mapping, id) == Field(Field(Field(cache.state, s_state), mapping), id)

\* the entries of a list, <<>> when the value is no list
Entries(v) == IF IsList(v) THEN v.items ELSE <<>>

(***************************************************************************)
(* C11 - participants from the attendee list.                              *)
(***************************************************************************)
\* C11: in the records get_meetings returns, a document whose people list
\* yields no name (absent, null, not a list, empty, or entries without a
\* non-empty name) and whose metadata entry, looked up by the meeting
\* identifier, has an attendee list gets as participants exactly the
\* attendees' non-empty names, first occurrences only, in list order.
C11_AttendeeFallback ==
    Returned =>
      \A i \in 1..DocCount :
        (/\ Names(Entries(Field(DocAt(i), s_people))) = <<>>
         /\ IsList(Field(SideEntry(s_meetingsMetadata, IdAt(i)), s_attendees)))
          => RecordOf(IdAt(i)).participants =
               JList(FirstSeen(Names(Field(SideEntry(s_meetingsMetadata, IdAt(i)),
                                           s_attendees).items)))

\* people without a usable name, attendees Bob, "x", Cy, "", Bob under the
\* document key: the participants are Bob, Cy; and with the id m1 the
\* attendees under m1 are used: Cy, Ann
C11_Witness ==
    /\ Returned
    /\ \E i \in 1..DocCount :
         /\ IsList(Field(DocAt(i), s_people)) /\ Len(Field(DocAt(i), s_people).items) = 3
         /\ Names(Entries(Field(DocAt(i), s_people))) = <<>>
         /\ \/ IdAt(i) = s_d1
               /\ RecordOf(s_d1).participants = JList(<<JStr(s_Bob), JStr(s_Cy)>>)
            \/ IdAt(i) = s_m1
               /\ Len(Entries(Field(SideEntry(s_meetingsMetadata, s_d1), s_attendees))) = 5
               /\ RecordOf(s_m1).participants = JList(<<JStr(s_Cy), JStr(s_Ann)>>)

(***************************************************************************)
(* C12 - participants without repeats.                                     *)
(***************************************************************************)
\* no value twice
NoRepeats(seq) == \A i, j \in 1..Len(seq) : seq[i] = seq[j] => i = j

\* C12: in every record get_meetings returns, no name is twice among the
\* participants (names that differ in case are different names), and the
\* participants are the first occurrences, in list order, of the non-empty
\* names of the list they come from: the document's people list, or its
\* metadata entry's attendee list.
C12_UniqueInOrder ==
    Returned =>
      \A i \in 1..DocCount :
        /\ NoRepeats(RecordOf(IdAt(i)).participants.items)
        /\ RecordOf(IdAt(i)).participants.items \in
             {FirstSeen(Names(Entries(Field(DocAt(i), s_people)))),
              FirstSeen(Names(Entries(Field(SideEntry(s_meetingsMetadata, IdAt(i)),
                                            s_attendees))))}

\* people Ann, ann, Ann gave Ann, ann
C12_Witness ==
    /\ Returned
    /\ Names(Entries(Field(Field(DocumentsOf, s_d1), s_people)))
         = <<JStr(s_Ann), JStr(s_ann), JStr(s_Ann)>>
    /\ \E k \in 1..Len(last.out.val) :
         last.out.val[k].participants = JList(<<JStr(s_Ann), JStr(s_ann)>>)

(***************************************************************************)
(* C13 - the platform.                                                     *)
(***************************************************************************)
\* the provider of the conference of the metadata entry of an identifier;
\* null when the entry, the conference object or the provider is missing
ProviderOf(id) ==
    Field(Field(SideEntry(s_meetingsMetadata, id), s_conference), s_provider)

\* the platform the claim gives a provider
PlatformFor(provider) ==
    IF provider = JStr(s_google_meet) THEN JStr(s_meet)
    ELSE IF provider = JStr(s_zoom) THEN JStr(s_zoom)
    ELSE IF provider = JStr(s_teams) THEN JStr(s_teams)
    ELSE IF provider \notin {JNull, JStr(<<>>), JNum(0)} THEN JStr(s_other)
    ELSE JNull

\* C13: in every record get_meetings returns, the platform is meet, zoom,
\* teams, other or null, and it is the image of the conference provider of
\* the meeting's metadata entry alone: google_meet gives meet, zoom gives
\* zoom, teams gives teams, any other non-empty provider (one that is not
\* null, "" or 0) gives other, and a missing entry, conference object or
\* provider gives null.
C13_PlatformFromProvider ==
    Returned =>
      \A i \in 1..DocCount :
        /\ RecordOf(IdAt(i)).platform \in
             {JStr(s_meet), JStr(s_zoom), JStr(s_teams), JStr(s_other), JNull}
        /\ RecordOf(IdAt(i)).platform = PlatformFor(ProviderOf(IdAt(i)))

\* the provider "meet" is not a known provider: the platform is other
C13_Witness ==
    /\ Returned
    /\ ProviderOf(s_d1) = JStr(s_meet)
    /\ RecordOf(s_d1).platform = JStr(s_other)
    /\ RecordOf(s_d2).platform = JNull

(***************************************************************************)
(* C14 - the notes.                                                        *)
(***************************************************************************)
\* a note field that holds text
HasText(v) == IsStr(v) /\ v.s # <<>>

\* the original_content of the panels of an identifier, in mapping order
PanelContents(id) ==
    LET panels == SideEntry(s_documentPanels, id)
    IN IF IsDict(panels)
       THEN [k \in 1..DictLen(panels) |-> Field(panels.vs[k], s_original_content)]
       ELSE <<>>

\* the first of the contents that satisfies Usable, as a one-element
\* sequence; <<>> when none does
FirstUsable(contents, Usable(_)) ==
    LET hits == {k \in 1..Len(contents) : Usable(contents[k])}
    IN IF hits = {} THEN <<>>
       ELSE <<contents[CHOOSE k \in hits : \A j \in hits : k <= j]>>

\* the content is usable as the claim states it, and as the code takes it
UsableAsIs(content) == HasText(content) /\ content.s # s_hr
UsableStripped(content) == IsStr(content) /\ StrStrip(content.s) \notin {<<>>, s_hr}

\* C14 as stated: the notes are the plaintext field if non-empty, else the
\* markup field if non-empty, else the content of the first panel whose
\* content is a non-empty string other than "<hr>", else they are unset
\* (null or empty).
C14_NotesChainAsIs ==
    Returned =>
      \A i \in 1..DocCount :
        LET plain == Field(DocAt(i), s_notes_plain)
            markup == Field(DocAt(i), s_notes_markdown)
            panel == FirstUsable(PanelContents(IdAt(i)), UsableAsIs)
            notes == RecordOf(IdAt(i)).notes
        IN IF HasText(plain) THEN notes = plain
           ELSE IF HasText(markup) THEN notes = markup
           ELSE IF panel # <<>> THEN notes = panel[1]
           ELSE notes \in {JNull, JStr(<<>>)}

\* C14, amended: the notes are the plaintext field if non-empty, else the
\* markup field if non-empty, else the content, with the surrounding
\* whitespace stripped, of the first panel whose content is a string that
\* is, once stripped, non-empty and other than "<hr>"; when no panel
\* qualifies they are what the markup field holds (null or "").
C14_NotesChain ==
    Returned =>
      \A i \in 1..DocCount :
        LET plain == Field(DocAt(i), s_notes_plain)
            markup == Field(DocAt(i), s_notes_markdown)
            panel == FirstUsable(PanelContents(IdAt(i)), UsableStripped)
            notes == RecordOf(IdAt(i)).notes
        IN IF HasText(plain) THEN notes = plain
           ELSE IF HasText(markup) THEN notes = markup
           ELSE IF panel # <<>> THEN notes = JStr(StrStrip(panel[1].s))
           ELSE notes = markup

\* no note field, a first panel of blanks, a second panel "hello": the
\* notes are "hello"
C14_Witness ==
    /\ Returned
    /\ ~HasText(Field(Field(DocumentsOf, s_d1), s_notes_plain))
    /\ ~HasText(Field(Field(DocumentsOf, s_d1), s_notes_markdown))
    /\ PanelContents(s_d1) = <<JStr(s_blank), JStr(s_hello)>>
    /\ RecordOf(s_d1).notes = JStr(s_hello)

(***************************************************************************)
(* C15 - the folder.                                                       *)
(***************************************************************************)
\* the folders (positions in documentLists) whose membership list holds
\* the identifier
FoldersOf(id) ==
    LET lists == Field(Field(cache.state, s_state), s_documentLists)
    IN IF IsDict(lists)
       THEN {k \in 1..DictLen(lists) : InSeq(Entries(lists.vs[k]), JStr(id))}
       ELSE {}

\* C15: in the records get_meetings returns, a meeting whose identifier is
\* in exactly one folder's membership list has that folder's id as
\* folder_id and the title of that folder's metadata as folder_name (null
\* when the folder has no metadata title); a meeting in no membership list
\* has both null.
C15_FolderOfMeeting ==
    Returned =>
      \A i \in 1..DocCount :
        LET lists == Field(Field(cache.state, s_state), s_documentLists)
            record == RecordOf(IdAt(i))
        IN /\ FoldersOf(IdAt(i)) = {}
                => (record.folder_id = JNull /\ record.folder_name = JNull)
           /\ \A k \in FoldersOf(IdAt(i)) :
                FoldersOf(IdAt(i)) = {k}
                  => /\ record.folder_id = JStr(lists.ks[k])
                     /\ record.folder_name =
                          Field(SideEntry(s_documentListsMetadata, lists.ks[k]), s_title)

(***************************************************************************)
(* C16 - the order of the records.                                         *)
(***************************************************************************)
\* the position in the documents mapping of the document with that
\* identifier
DocIndex(id) == CHOOSE i \in 1..DocCount : JStr(IdAt(i)) = id

\* C16: the records get_meetings returns are in descending order of the
\* start_ts strings; a document without a timestamp has start_ts "" and so
\* comes after every dated record; records with equal start_ts are in the
\* order of their documents in the documents mapping.
C16_SortedStable ==
    Returned =>
      /\ \A i \in 1..DocCount :
           Field(DocAt(i), s_created_at) = JNull => RecordOf(IdAt(i)).start_ts = JStr(<<>>)
      /\ \A k, l \in 1..Len(last.out.val) :
           k < l =>
             /\ ~StrLess(last.out.val[k].start_ts.s, last.out.val[l].start_ts.s)
             /\ last.out.val[k].start_ts = last.out.val[l].start_ts
                  => DocIndex(last.out.val[k].id) < DocIndex(last.out.val[l].id)
             /\ last.out.val[k].start_ts = JStr(<<>>)
                  => last.out.val[l].start_ts = JStr(<<>>)

\* documents k1 (no date), k2 and d1 (the same date): the records are k2,
\* d1, k1
C16_Witness ==
    /\ Returned
    /\ DocCount = 3
    /\ [k \in 1..Len(last.out.val) |-> last.out.val[k].id]
         = <<JStr(s_k2), JStr(s_d1), JStr(s_k1)>>
    /\ last.out.val[1].start_ts = last.out.val[2].start_ts
    /\ last.out.val[3].start_ts = JStr(<<>>)

(***************************************************************************)
(* SpecPage: _paginate on its own (meetings.py:33-39).  The filtered       *)
(* records stand as their positions 1..n; besides the small sizes the      *)
(* inputs hold the documented example (120 records, limit 50).             *)
(***************************************************************************)
MaxRecords == 5
MaxLimit == 3
ExampleRecords == 120

Numbered(n) == [i \in 1..n |-> i]
RecordCounts == 0..MaxRecords \cup {ExampleRecords}
\* schemas.py: limit is ge=1; the tools pass `params.limit or 50`
Limits == 1..MaxLimit \cup {DefaultLimit}
Offsets == 0..(MaxRecords + 1) \cup {DefaultLimit, 2 * DefaultLimit}
DecimalCursor(c) == JStr(NatToStr(c))
Cursors == {JNull} \cup {DecimalCursor(c) : c \in Offsets}

PaginateCall ==
    \E n \in RecordCounts, limit \in Limits, cursor \in Cursors :
        OnParser("_paginate",
                 [items |-> Numbered(n), limit |-> limit, cursor |-> cursor],
                 Effect(Paginate(Numbered(n), limit, cursor), cache, <<>>))

InitPage == InitWith({FileMissing}, Untracked)

NextPage == PaginateCall

SpecPage == InitPage /\ [][NextPage]_vars

\* the offset a decimal cursor spells; an absent cursor is offset 0
OffsetOf(cursor) ==
    IF cursor = JNull THEN 0
    ELSE CHOOSE c \in Offsets : cursor = DecimalCursor(c)

Paged == last.op = "_paginate"

\* C17: for N filtered records, a limit >= 1 and a decimal cursor c (absent
\* = 0), _paginate returns exactly the records c .. min(c+limit, N)-1 in
\* order, and next_cursor is str(c+limit) when c+limit < N, else None
C17_PageIsSlice ==
    Paged =>
        LET items == last.args.items
            N == Len(items)
            limit == last.args.limit
            c == OffsetOf(last.args.cursor)
            stop == Min(c + limit, N)
        IN /\ last.out.ok
           /\ Len(last.out.val.items) = Max(stop - c, 0)
           /\ \A i \in 1..Len(last.out.val.items) :
                  last.out.val.items[i] = items[c + i]
           /\ last.out.val.next_cursor =
                  IF c + limit < N THEN DecimalCursor(c + limit) ELSE JNull

\* the documented example: 120 records and limit 50; the page at cursor
\* "100" holds the last 20 records and no next_cursor
C17_Witness ==
    /\ Paged
    /\ Len(last.args.items) = 120
    /\ last.args.limit = 50
    /\ last.args.cursor = JStr(<<"1", "0", "0">>)
    /\ last.out.ok
    /\ last.out.val.items = [i \in 1..20 |-> 100 + i]
    /\ last.out.val.next_cursor = JNull

(***************************************************************************)
(* SpecWalk: a client walks a result set.  It calls list_meetings or       *)
(* search_meetings without a cursor and then, with the same filters and    *)
(* limit, passes each next_cursor back until none is returned.  Between    *)
(* its calls the environment may replace the file and the server may       *)
(* reload; `stable` records that every call of the walk worked on the      *)
(* records the first call worked on.                                       *)
(***************************************************************************)
MaxDocs == 5

WalkKey(i) == <<"w", DigitChar(i)>>
\* the i-th document: dated day i, titled Sync when i is odd and Plan when even
WalkDoc(i) ==
    JDict(<<s_id, s_title, s_created_at>>,
          <<JStr(WalkKey(i)), JStr(IF i % 2 = 1 THEN s_Sync ELSE s_Plan), JNum(86400 * i)>>)
WalkGraph(n) ==
    Graph(JDict(<<s_documents>>,
                <<JDict([i \in 1..n |-> WalkKey(i)], [i \in 1..n |-> WalkDoc(i)])>>))
WalkFiles == {File(TRUE, 20 + n, Envelope(JText(WalkGraph(n)))) : n \in (MaxDocs - 1)..MaxDocs}

WalkLimits == {JNull} \cup {JNum(l) : l \in 1..MaxLimit}
\* the first request of a walk: no cursor; q is optional in
\* ListMeetingsInput and a str in SearchMeetingsInput
WalkInputs(op) ==
    IF op = "list_meetings"
    THEN {ListParams(q, JNull, limit, JNull) :
              q \in {JNull, JStr(s_sync)}, limit \in WalkLimits}
    ELSE {SearchParams(q, JNull, limit, JNull) :
              q \in {JStr(<<>>), JStr(s_sync)}, limit \in WalkLimits}

WalkOps == {"list_meetings", "search_meetings"}
ToolOf(op, c, f, t, params) ==
    IF op = "list_meetings" THEN ListMeetings(c, f, t, params)
    ELSE SearchMeetings(c, f, t, params)

\* the records the tool fetches: raw_items = parser.get_meetings()
RawItems(fresh) == GetMeetings(ParserOf(fresh), file, now, FALSE).out

NewWalk(op, params, fresh, records) ==
    [walking |-> TRUE, op |-> op, params |-> params, fresh |-> fresh,
     records |-> records, stable |-> TRUE, received |-> <<>>, calls |-> 0,
     done |-> FALSE, failed |-> FALSE]

\* the client appends the page and keeps next_cursor for its next request;
\* it stops when there is none, or when the call fails
Received(walk, out, records) ==
    IF ~out.ok
    THEN [walk EXCEPT !.calls = @ + 1, !.done = TRUE, !.failed = TRUE]
    ELSE [walk EXCEPT !.calls = @ + 1,
                      !.received = @ \o out.val.items,
                      !.params.cursor = out.val.next_cursor,
                      !.done = out.val.next_cursor = JNull,
                      !.stable = @ /\ records = walk.records]

WalkCall(walk) ==
    Bind(ToolOf(walk.op, ParserOf(walk.fresh), file, now, walk.params), LAMBDA eff :
       /\ ToolStep(walk.op, walk.params, walk.fresh, eff)
       /\ client' = Received(walk, eff.out, RawItems(walk.fresh)))

StartWalk ==
    /\ ~client.walking
    /\ \E op \in WalkOps, fresh \in BOOLEAN :
           \E params \in WalkInputs(op) :
               WalkCall(NewWalk(op, params, fresh, RawItems(fresh)))

FollowWalk ==
    /\ client.walking /\ ~client.done
    /\ WalkCall(client)

InitWalk == InitWith(WalkFiles, Untracked)

NextWalk ==
    \/ WriteFile(WalkFiles)
    \/ ReloadCall
    \/ StartWalk
    \/ FollowWalk

SpecWalk == InitWalk /\ [][NextWalk]_vars

WalkDone == client.walking /\ client.done
\* [_to_summary(i) for i in raw_items if matches(i)] on the walk's records
WholeCollection ==
    Summaries(client.records.val, client.params, client.op = "search_meetings").val
\* the records the client holds after its calls so far, when each call
\* brought the next `limit` records of the collection
FirstPages(whole, limit, calls) == SubSeq(whole, 1, Min(calls * limit, Len(whole)))

\* C18: a client that calls list_meetings or search_meetings without a
\* cursor and then with each returned next_cursor, same filters and limit,
\* on an unchanged snapshot, stops after finitely many calls, and the pages
\* it received, concatenated, are the filtered sorted collection: every
\* record once, none skipped, in order.  Each call brings the next `limit`
\* records; the walk goes on only while records are left, so it is over
\* after at most as many calls as there are records (one, when none)
C18_WalkIsExhaustive ==
    (client.walking /\ client.stable) =>
        /\ ~client.failed
        /\ client.calls >= 1
        /\ client.received = FirstPages(WholeCollection, LimitOf(client.params), client.calls)
        /\ client.done <=> client.calls * LimitOf(client.params) >= Len(WholeCollection)
        /\ client.calls <= Max(Len(WholeCollection), 1)
        /\ client.done => client.received = WholeCollection

\* a walk of three calls: five meetings, q = "sync", limit 1; the client
\* holds the three Sync meetings, newest first
C18_Witness ==
    /\ WalkDone /\ client.stable
    /\ client.params.q = JStr(s_sync) /\ client.params.limit = JNum(1)
    /\ client.calls = 3
    /\ Len(client.received) = 3
    /\ \A i \in 1..3 : client.received[i].id = JStr(WalkKey(7 - 2 * i))

(***************************************************************************)
(* SpecFilter: list_meetings and search_meetings with a free-text query or *)
(* with time bounds, limit and cursor left out, on three meetings:         *)
(*   f1  "Sync",  2025-09-01T10:00:00Z, people Ann and Bob, no notes;      *)
(*   f2  "Plan",  2025-09-02, notes "Hello";                               *)
(*   f3  "Old",   no date, notes "None yet".                               *)
(***************************************************************************)
s_f1 == <<"f", "1">>
s_f2 == <<"f", "2">>
s_f3 == <<"f", "3">>
s_Hello == <<"H", "e", "l", "l", "o">>
s_None_yet == <<"N", "o", "n", "e", " ", "y", "e", "t">>
s_none == <<"n", "o", "n", "e">>
s_SYNC == <<"S", "Y", "N", "C">>
s_after_f1 == <<"2", "0", "2", "5", "-", "0", "9", "-", "0", "1", "T", "1", "0", ":", "0", "0", ":", "0", "1", "Z">>
s_offset == <<"2", "0", "2", "5", "-", "0", "9", "-", "0", "1", "T", "1", "2", ":", "0", "0", ":", "0", "0", "+", "0", "2", ":", "0", "0">>
s_f1_start == <<"2", "0", "2", "5", "-", "0", "9", "-", "0", "1", "T", "1", "0", ":", "0", "0", ":", "0", "0", "+", "0", "0", ":", "0", "0">>
s_f2_start == <<"2", "0", "2", "5", "-", "0", "9", "-", "0", "2", "T", "0", "0", ":", "0", "0", ":", "0", "0", "+", "0", "0", ":", "0", "0">>
s_after_f1_iso == <<"2", "0", "2", "5", "-", "0", "9", "-", "0", "1", "T", "1", "0", ":", "0", "0", ":", "0", "1", "+", "0", "0", ":", "0", "0">>

GraphF ==
    Graph(JDict(
        <<s_documents>>,
        <<JDict(<<s_f1, s_f2, s_f3>>,
                <<JDict(<<s_id, s_title, s_created_at, s_people>>,
                        <<JStr(s_f1), JStr(s_Sync), JStr(s_ts1),
                          JList(<<Person(s_Ann), Person(s_Bob)>>)>>),
                  JDict(<<s_id, s_title, s_created_at, s_notes_plain>>,
                        <<JStr(s_f2), JStr(s_Plan), JStr(s_ts2), JStr(s_Hello)>>),
                  JDict(<<s_id, s_title, s_notes_plain>>,
                        <<JStr(s_f3), JStr(s_Old), JStr(s_None_yet)>>)>>)>>))
FileF == File(TRUE, 30, Envelope(JText(GraphF)))
FilterFiles == {FileA, FileF}

Queries == {JStr(q) : q \in {<<>>, s_sync, s_SYNC, s_ann, s_hello, s_none, s_zz, s_Bob}}
Bounds == {JNull, JStr(<<>>), JStr(s_abc), JStr(s_ts1), JStr(s_ts2), JStr(s_after_f1),
           JStr(s_offset)}

\* SearchFilters
Filters(after, before) ==
    [participants |-> JNull, platform |-> JNull, after |-> after, before |-> before]
ListBounded(q, from_ts, to_ts) ==
    [ListParams(q, JNull, JNull, JNull) EXCEPT !.from_ts = from_ts, !.to_ts = to_ts]

ListFilterInputs ==
    {ListParams(q, JNull, JNull, JNull) : q \in Queries \cup {JNull}}
        \cup {ListBounded(JNull, lower, upper) : lower \in Bounds, upper \in Bounds}
SearchFilterInputs ==
    {SearchParams(q, JNull, JNull, JNull) : q \in Queries}
        \cup {SearchParams(JStr(<<>>), Filters(lower, upper), JNull, JNull) :
                  lower \in Bounds, upper \in Bounds}

\* the filters read the call's arguments and the records only, so one call
\* is made on each file the environment writes
ListFilteredCall ==
    /\ last = NoCall
    /\ \E fresh \in BOOLEAN, params \in ListFilterInputs :
           ToolCall("list_meetings", params, fresh,
                    ListMeetings(ParserOf(fresh), file, now, params))

SearchFilteredCall ==
    /\ last = NoCall
    /\ \E fresh \in BOOLEAN, params \in SearchFilterInputs :
           ToolCall("search_meetings", params, fresh,
                    SearchMeetings(ParserOf(fresh), file, now, params))

InitFilter == InitWith(FilterFiles, Untracked)

NextFilter ==
    \/ WriteFile(FilterFiles)
    \/ ListFilteredCall
    \/ SearchFilteredCall

SpecFilter == InitFilter /\ [][NextFilter]_vars

\* a list_meetings or search_meetings call that returned, and the records
\* it filtered
Filtered == last.op \in {"list_meetings", "search_meetings"} /\ last.out.ok
CallRecords == RawItems(last.fresh).val
IdsOf(items) == [i \in 1..Len(items) |-> items[i].id]
\* the call had a query and no other filter
QueryOnly ==
    /\ Filtered
    /\ last.args.q # JNull
    /\ IF last.op = "list_meetings"
       THEN last.args.from_ts = JNull /\ last.args.to_ts = JNull
       ELSE last.args.filters = JNull

\* title, notes and participant names, lower-cased; no notes, no notes text
NotesText(record) == IF record.notes = JNull THEN <<>> ELSE record.notes.s
NamesText(record) ==
    StrJoin(<<" ">>, [i \in 1..Len(record.participants.items) |->
                          record.participants.items[i].s])
SearchedText(record) ==
    StrLower(record.title.s \o <<" ">> \o NotesText(record) \o <<" ">> \o NamesText(record))

\* C19: a record passes the free-text filter q of list_meetings and
\* search_meetings exactly when lower-cased q is a substring of the
\* lower-cased concatenation of its title, its notes and its participant
\* names, where a record without notes contributes no notes text
C19_FreeTextFilter ==
    QueryOnly =>
        IdsOf(last.out.val.items) =
            IdsOf(SelectSeq(CallRecords,
                            LAMBDA record :
                                StrContains(SearchedText(record), StrLower(last.args.q.s))))

\* the call had time bounds and no other filter
LowerBound == IF last.op = "list_meetings" THEN last.args.from_ts ELSE last.args.filters.after
UpperBound == IF last.op = "list_meetings" THEN last.args.to_ts ELSE last.args.filters.before
BoundsOnly ==
    /\ Filtered
    /\ IF last.op = "list_meetings" THEN last.args.q = JNull
       ELSE last.args.q = JStr(<<>>) /\ last.args.filters # JNull

\* the canonical form of the bounds of Bounds that have one: a trailing Z
\* becomes +00:00, a date gets midnight UTC, an explicit offset is kept
CanonicalForms ==
    {<<JStr(s_ts1), s_f1_start>>,
     <<JStr(s_ts2), s_f2_start>>,
     <<JStr(s_after_f1), s_after_f1_iso>>,
     <<JStr(s_offset), s_offset>>}
Normalizable(bound) == \E pair \in CanonicalForms : pair[1] = bound
Canonical(bound) == (CHOOSE pair \in CanonicalForms : pair[1] = bound)[2]
StrLessEq(s, t) == s = t \/ StrLess(s, t)
Within(start_ts, lower, upper) ==
    /\ Normalizable(lower) => StrLessEq(Canonical(lower), start_ts)
    /\ Normalizable(upper) => StrLessEq(start_ts, Canonical(upper))

\* C20: with a lower bound (from_ts / after) and an upper bound (to_ts /
\* before) a record is kept exactly when normalized(lower) <= start_ts <=
\* normalized(upper) as strings, both ends inclusive; a bound that cannot
\* be normalized to the canonical form excludes no record
C20_InclusiveBounds ==
    BoundsOnly =>
        IdsOf(last.out.val.items) =
            IdsOf(SelectSeq(CallRecords,
                            LAMBDA record :
                                Within(record.start_ts.s, LowerBound, UpperBound)))

\* both ends inclusive: from f1's start to f2's start keeps f2 and f1 and
\* drops the undated f3
C20_Witness ==
    /\ BoundsOnly
    /\ file = FileF
    /\ LowerBound = JStr(s_ts1) /\ UpperBound = JStr(s_ts2)
    /\ IdsOf(last.out.val.items) = <<JStr(s_f2), JStr(s_f1)>>

(***************************************************************************)
(* SpecTurns: the transcript turn builder.  test_parser.py:70 calls        *)
(* parser.build_transcript_turns, which GranolaParser does not define; the *)
(* builder is written here from its documented contract.  A segment has a  *)
(* speaker label (source), a timestamp (ts) and a text.                    *)
(***************************************************************************)
MaxSegments == 4

s_Alice == <<"A", "l", "i", "c", "e">>
s_World == <<"W", "o", "r", "l", "d">>
s_Reply == <<"R", "e", "p", "l", "y">>
s_Hello_World == <<"H", "e", "l", "l", "o", " ", "W", "o", "r", "l", "d">>

Segment(source, ts, text) == [source |-> source, ts |-> ts, text |-> text]
Turn(speaker, text, start, end) ==
    [speaker |-> speaker, text |-> text, start |-> start, end |-> end]

\* the turn with one more segment
Extended(turn, segment) ==
    Turn(turn.speaker, turn.text \o <<" ">> \o segment.text, turn.start, segment.ts)

\* a variant of AddSegment: the segment joins the last turn whoever speaks
JoinLastTurn(turns, segment) ==
    IF turns # <<>>
    THEN [turns EXCEPT ![Len(turns)] = Extended(turns[Len(turns)], segment)]
    ELSE Append(turns, Turn(segment.source, segment.text, segment.ts, segment.ts))

\* the next segment either extends the last turn (same speaker) or opens one
AddSegment(turns, segment) ==
    IF turns # <<>> /\ turns[Len(turns)].speaker = segment.source
    THEN [turns EXCEPT ![Len(turns)] = Extended(turns[Len(turns)], segment)]
    ELSE Append(turns, Turn(segment.source, segment.text, segment.ts, segment.ts))

RECURSIVE TurnsFrom(_, _)
TurnsFrom(turns, segments) ==
    IF segments = <<>> THEN turns
    ELSE TurnsFrom(AddSegment(turns, Head(segments)), Tail(segments))

\* build_transcript_turns on the segments of one meeting
BuildTranscriptTurns(segments) == TurnsFrom(<<>>, segments)

Speakers == {s_Alice, s_Bob}
Texts == {s_Hello, s_World, s_Reply}
\* the i-th segment is stamped second i
StampOf(i) == <<"t", DigitChar(i)>>
SegmentLists ==
    UNION {{[i \in 1..n |-> Segment(speaker[i], StampOf(i), text[i])] :
                speaker \in [1..n -> Speakers], text \in [1..n -> Texts]} :
           n \in 0..MaxSegments}

\* the builder reads its segments only: one call in each run
BuildTranscriptTurnsCall ==
    /\ last = NoCall
    /\ \E segments \in SegmentLists :
           OnParser("build_transcript_turns", [segments |-> segments],
                    Effect(Ret(BuildTranscriptTurns(segments)), cache, <<>>))

InitTurns == InitWith({FileMissing}, Untracked)

NextTurns == BuildTranscriptTurnsCall

SpecTurns == InitTurns /\ [][NextTurns]_vars

Built == last.op = "build_transcript_turns"
\* the positions where a turn starts: the first segment, and every segment
\* whose speaker differs from the one before
TurnStarts(segments) ==
    {i \in 1..Len(segments) : i = 1 \/ segments[i].source # segments[i - 1].source}
\* the last segment of the turn that starts at i
TurnEnd(segments, i) ==
    CHOOSE j \in i..Len(segments) :
        /\ \A k \in (i + 1)..j : k \notin TurnStarts(segments)
        /\ j = Len(segments) \/ j + 1 \in TurnStarts(segments)
\* the k-th smallest member of a set of positions
Nth(positions, k) ==
    CHOOSE i \in positions : Cardinality({j \in positions : j < i}) = k - 1

\* C21: consecutive segments with the same speaker label form one turn: a
\* turn starts at the first segment and wherever the speaker differs from
\* the segment before; a turn's text is its segments' texts joined by one
\* space in order, its start the first segment's timestamp, its end the
\* last segment's; no segments, no turns
C21_TurnsCoalesce ==
    Built =>
        LET segments == last.args.segments
            turns == last.out.val
            starts == TurnStarts(segments)
        IN /\ Len(turns) = Cardinality(starts)
           /\ \A k \in 1..Len(turns) :
                  LET first == Nth(starts, k)
                      final == TurnEnd(segments, first)
                  IN /\ turns[k].speaker = segments[first].source
                     /\ turns[k].text =
                            StrJoin(<<" ">>, [i \in 1..(final - first + 1) |->
                                                  segments[first + i - 1].text])
                     /\ turns[k].start = segments[first].ts
                     /\ turns[k].end = segments[final].ts

\* the documented example: Alice "Hello", Alice "World", Bob "Reply" give
\* two turns, Alice's "Hello World" over t1..t2 and Bob's "Reply" at t3
C21_Witness ==
    /\ Built
    /\ last.args.segments =
           <<Segment(s_Alice, StampOf(1), s_Hello),
             Segment(s_Alice, StampOf(2), s_World),
             Segment(s_Bob, StampOf(3), s_Reply)>>
    /\ last.out.val =
           <<Turn(s_Alice, s_Hello_World, StampOf(1), StampOf(2)),
             Turn(s_Bob, s_Reply, StampOf(3), StampOf(3))>>

(***************************************************************************)
(* Graphs with a transcript side mapping (state.transcripts): the graph of *)
(* tests/test_parser.py:13-46 and the same graph with the mapping left     *)
(* out, empty for e1, or holding segments for another meeting only.        *)
(***************************************************************************)
s_e1 == <<"e", "1">>
s_transcripts == <<"t", "r", "a", "n", "s", "c", "r", "i", "p", "t", "s">>
s_ts == <<"t", "s">>
s_source == <<"s", "o", "u", "r", "c", "e">>
s_text == <<"t", "e", "x", "t">>
s_Test_Meeting == <<"T", "e", "s", "t", " ", "M", "e", "e", "t", "i", "n", "g">>
s_Notes_here == <<"N", "o", "t", "e", "s", " ", "h", "e", "r", "e">>
s_Folder_A == <<"F", "o", "l", "d", "e", "r", " ", "A">>
s_has_transcript == <<"h", "a", "s", "_", "t", "r", "a", "n", "s", "c", "r", "i", "p", "t">>

RawSegment(source, ts, text) ==
    JDict(<<s_ts, s_source, s_text>>, <<JStr(ts), JStr(source), JStr(text)>>)
TestSegments ==
    JList(<<RawSegment(s_Alice, StampOf(1), s_Hello),
            RawSegment(s_Alice, StampOf(2), s_World),
            RawSegment(s_Bob, StampOf(3), s_Reply)>>)
TranscriptChoices ==
    {Absent, JNull, EmptyDict,
     JDict(<<s_e1>>, <<TestSegments>>),
     JDict(<<s_e1>>, <<EmptyList>>),
     JDict(<<s_zz>>, <<TestSegments>>)}
TranscriptGraph(transcripts) ==
    Graph(OptDict(
        <<s_documents, s_meetingsMetadata, s_transcripts, s_documentLists,
          s_documentListsMetadata>>,
        <<JDict(<<s_e1>>,
                <<JDict(<<s_id, s_title, s_created_at, s_people, s_notes_plain, s_type>>,
                        <<JStr(s_e1), JStr(s_Test_Meeting), JStr(s_ts1),
                          JList(<<Person(s_Alice), Person(s_Bob)>>),
                          JStr(s_Notes_here), JStr(s_meeting)>>)>>),
          JDict(<<s_e1>>,
                <<JDict(<<s_conference>>,
                        <<JDict(<<s_provider>>, <<JStr(s_google_meet)>>)>>)>>),
          transcripts,
          JDict(<<s_L1>>, <<JList(<<JStr(s_e1)>>)>>),
          JDict(<<s_L1>>, <<JDict(<<s_title>>, <<JStr(s_Folder_A)>>)>>)>>))
TestGraph == TranscriptGraph(JDict(<<s_e1>>, <<TestSegments>>))
TranscriptGraphs == {TranscriptGraph(transcripts) : transcripts \in TranscriptChoices}
TranscriptFiles == {File(TRUE, 40, Envelope(JText(g))) : g \in TranscriptGraphs}

InitTranscripts == InitWith(TranscriptFiles, Untracked)

NextTranscripts ==
    \/ WriteFile(TranscriptFiles)
    \/ LoadCacheCall
    \/ GetMeetingsCall

SpecTranscripts == InitTranscripts /\ [][NextTranscripts]_vars

\* the transcript side mapping holds segments for the identifier
HasSegments(id) == Entries(SideEntry(s_transcripts, id)) # <<>>

\* C22: every record returned by get_meetings carries a transcript presence
\* flag, has_transcript, that is true exactly when the transcript side
\* mapping of the snapshot holds segments for the meeting's identifier; a
\* snapshot without that mapping is no error and gives records without
\* transcript data
C22_TranscriptFlag ==
    /\ (last.op = "get_meetings" /\ cache.loaded) => last.out.ok
    /\ Returned =>
           \A k \in 1..Len(last.out.val) :
               /\ "has_transcript" \in DOMAIN last.out.val[k]
               /\ last.out.val[k].has_transcript = JBool(HasSegments(last.out.val[k].id.s))

(***************************************************************************)
(* SpecRender: render_meeting_markdown on its own, on Meeting records with *)
(* and without notes, attendees, platform and date, for every kind of      *)
(* section selection.                                                      *)
(***************************************************************************)
s_trailing == <<"h", "e", "l", "l", "o", "\n", "\n">>

MeetingOf(start_ts, participants, platform, notes) ==
    [id |-> JStr(s_d1), title |-> JStr(s_Sync), start_ts |-> JStr(start_ts),
     end_ts |-> JNull, participants |-> JList(participants), platform |-> platform,
     metadata |-> JNull, notes |-> notes, overview |-> JNull, summary |-> JNull,
     folder_id |-> JNull, folder_name |-> JNull]
RenderMeetings ==
    {MeetingOf(start_ts, participants, platform, notes) :
         start_ts \in {<<>>, s_ts2},
         participants \in {<<>>, <<JStr(s_Ann), JStr(s_Bob)>>},
         platform \in {JNull, JStr(s_zoom)},
         notes \in {JNull, JStr(<<>>), JStr(s_hello), JStr(s_trailing), JStr(s_blank)}}
\* ExportMarkdownInput.sections
SectionChoices ==
    {JNull, EmptyList} \cup
    {JList([i \in 1..Len(names) |-> JStr(names[i])]) :
         names \in {<<s_header>>, <<s_attendees>>, <<s_notes>>, <<s_links>>,
                    <<s_notes, s_header>>, <<s_attendees, s_notes>>}}

RenderMeetingMarkdownCall ==
    \E meeting \in RenderMeetings, sections \in SectionChoices :
        OnParser("render_meeting_markdown", [meeting |-> meeting, sections |-> sections],
                 Effect(Ret(RenderMeetingMarkdown(meeting, sections)), cache, <<>>))

InitRender == InitWith({FileMissing}, Untracked)

NextRender == RenderMeetingMarkdownCall

SpecRender == InitRender /\ [][NextRender]_vars

Rendered == last.op = "render_meeting_markdown"
EndsWithOneNewline(text) ==
    /\ text # <<>>
    /\ text[Len(text)] = "\n"
    /\ Len(text) > 1 => text[Len(text) - 1] # "\n"

\* C23: render_meeting_markdown is deterministic and newline-terminated:
\* rendering the same record with the same sections again gives the same
\* output, and the output always ends with exactly one newline, also when
\* no selected section emits anything
C23_OneTrailingNewline ==
    /\ [](Rendered => EndsWithOneNewline(last.out.val))
    /\ [][(Rendered /\ Rendered' /\ last'.args = last.args) => last'.out = last.out]_vars

\* nothing is emitted (notes selected, the meeting has none) and the output
\* is the newline alone
C23_Witness ==
    /\ Rendered
    /\ last.args.sections = JList(<<JStr(s_notes)>>)
    /\ last.args.meeting.notes = JNull
    /\ last.out.val = <<"\n">>

(***************************************************************************)
(* C24: the numeric heuristic of _normalize_ts (parser.py:54-59), applied  *)
(* to integers on both sides of 10^7, 10^10 and their negatives.  An       *)
(* integer is hi * 10^6 + lo; the values stay where the float division by  *)
(* 1000 is exact to the microsecond (fewer than 2^33 seconds).             *)
(***************************************************************************)
TimestampHighs == {-20000, -10001, -10000, -1, 0, 9, 10, 1756, 9999, 10000, 10001,
                   1756722, 8000000}
TimestampLows == {0, 1, 500, 1000, 86400, 200000, 722000, 999999}
TimestampValues == {JBig(hi, lo) : hi \in TimestampHighs, lo \in TimestampLows}

NormalizeTsCall ==
    \E value \in TimestampValues :
        OnParser("_normalize_ts", [value |-> value], Effect(NormalizeTs(value), cache, <<>>))

InitNormalize == InitWith({FileMissing}, Untracked)

NextNormalize == NormalizeTsCall

SpecNormalize == InitNormalize /\ [][NextNormalize]_vars

Normalized == last.op = "_normalize_ts"

\* |v| > 10^10
BeyondMagnitude(v) == IsMilliseconds(v) \/ v.hi < 0 - MsThreshold
\* 10^7 < v <= 10^10
SecondsRange(v) == (v.hi > 10 \/ (v.hi = 10 /\ v.lo > 0)) /\ ~BeyondMagnitude(v)
\* 1000 * v
Thousandfold(v) == JBig(1000 * v.hi + (1000 * v.lo) \div Million, (1000 * v.lo) % Million)

\* the canonical string of the instant shi * 10^6 + slo seconds and us
\* microseconds after the epoch
InstantIso(shi, slo, us) ==
    LET dt == FromTimestampUtc(shi, slo, us)
    IN IF dt.ok THEN Ret(JStr(IsoFormat(dt.val))) ELSE dt
ReadAsSeconds(v) == InstantIso(v.hi, v.lo, 0)
ReadAsMilliseconds(v) ==
    InstantIso(v.hi \div 1000, (v.hi % 1000) * 1000 + v.lo \div 1000, (v.lo % 1000) * 1000)

\* C24: a numeric value is read as milliseconds since the epoch exactly when
\* its magnitude is greater than 10^10 and as seconds otherwise; so for
\* 10^7 < s <= 10^10, s and 1000 * s normalize to the same canonical string
C24_MagnitudeHeuristic ==
    Normalized =>
        /\ last.out = IF BeyondMagnitude(last.args.value)
                      THEN ReadAsMilliseconds(last.args.value)
                      ELSE ReadAsSeconds(last.args.value)
        /\ SecondsRange(last.args.value) =>
               /\ last.out.ok
               /\ NormalizeTs(Thousandfold(last.args.value)) = last.out

(***************************************************************************)
(* C25: the identifier of a record (parser.py:274).  One document under    *)
(* each key, with each kind of "id" a JSON document can carry.             *)
(***************************************************************************)
IdentKeys == {<<>>, s_d1}
IdentChoices ==
    {Absent, JNull, JStr(<<>>), JStr(s_m1), JNum(0), JNum(7), JBool(FALSE), JBool(TRUE),
     JList(<<>>), JList(<<JStr(s_m1)>>), JDict(<<>>, <<>>)}
IdentGraph(key, id) ==
    Graph(OptDict(<<s_documents>>,
                  <<JDict(<<key>>,
                          <<OptDict(<<s_id, s_title, s_created_at>>,
                                    <<id, JStr(s_Sync), JStr(s_ts1)>>)>>)>>))
IdentGraphs == {IdentGraph(key, id) : key \in IdentKeys, id \in IdentChoices}
IdentFiles == {File(TRUE, 50, Envelope(JText(g))) : g \in IdentGraphs}

InitIdent == InitWith(IdentFiles, Untracked)

NextIdent ==
    \/ WriteFile(IdentFiles)
    \/ LoadCacheCall
    \/ GetMeetingsCall

SpecIdent == InitIdent /\ [][NextIdent]_vars

\* the document has an id of its own: the field is there and is neither
\* null nor the empty string
HasOwnId(doc) == HasKey(doc, s_id) /\ ~IsNone(Get(doc, s_id)) /\ Get(doc, s_id) # JStr(<<>>)

\* C25: every record get_meetings returns has a non-empty string as its
\* identifier: the string form of the document's own id when it has one,
\* else the document's key in the documents mapping
C25_IdentifierOfRecord ==
    Returned =>
        /\ Len(last.out.val) = DocCount
        /\ \A i \in 1..DocCount :
               /\ last.out.val[i].id.t = "str"
               /\ last.out.val[i].id.s # <<>>
               /\ last.out.val[i].id.s = IF HasOwnId(DocAt(i))
                                         THEN PyStr(Get(DocAt(i), s_id))
                                         ELSE DocumentsOf.ks[i]

(***************************************************************************)
(* C26 - reading documents and the memoized snapshot.                      *)
(***************************************************************************)
SourceOps == {"get_documents", "get_document_by_id"}

\* the snapshot the call's own load step leaves (local_file.py:41-44,
\* 72-75): the memoized one, or the one reload() stores when forced
LoadedBy(call) == SourceLoad(cache, file, now, call.args.force).cache

\* C26: get_documents and get_document_by_id, with or without force, never
\* change the content of the memoized snapshot: when the parser holds a
\* snapshot and the call's load step keeps its graph (no force, or a forced
\* reload of an unchanged file), the graph after the call equals the graph
\* before it
C26_ReadsLeaveSnapshot ==
    [][(/\ last'.op \in SourceOps
        /\ cache.loaded
        /\ LoadedBy(last').loaded
        /\ LoadedBy(last').state = cache.state)
         => (cache'.loaded /\ cache'.state = cache.state)]_vars

(***************************************************************************)
(* C27 - what the memoized snapshot can be.                                *)
(***************************************************************************)
\* the payload of a file that passes every check of load_cache
PayloadOf(f) == IF f = FileA THEN GraphA ELSE GraphB

\* a snapshot: a decoded object that has "state", and the time of its load
ValidatedSnapshot(c) ==
    /\ DOMAIN c = {"loaded", "state", "loaded_at"}
    /\ IsDict(c.state) /\ HasKey(c.state, s_state)
    /\ c.loaded_at \in 0..MaxTime

\* C27: after any sequence of load_cache, reload and query calls, failed or
\* not, the memoized snapshot is absent or a validated payload (an object
\* that has "state") with its load time; the snapshot and its load time
\* change only in a call that read a file which passes every check, and
\* become that file's payload and the time of the call
C27_SnapshotIsValidated ==
    /\ [](cache = NoCache \/ (cache.loaded /\ ValidatedSnapshot(cache)))
    /\ [][cache' # cache
            => /\ last'.op # "none"
               /\ ~cache.loaded \/ ForcedLoad(last')
               /\ OpensFile(last')
               /\ file \notin BrokenFiles
               /\ cache' = CacheState(PayloadOf(file), now)]_vars

\* a query loaded the second file's payload, later than time 0, on a parser
\* that had none
C27_Witness ==
    /\ last.op = "get_meetings" /\ OpensFile(last)
    /\ cache.loaded /\ cache.state = GraphB /\ cache.loaded_at = now /\ now > 0
    /\ file = FileB

(***************************************************************************)
(* C28 - the empty id.                                                     *)
(***************************************************************************)
ByIdOps == {"get_meeting", "export_markdown"}

\* C28: get_meeting and export_markdown called with an empty id fail with
\* BAD_REQUEST before any cache access: storage is not touched and the
\* server's snapshot is left as it is, whether the tool was given the
\* server's parser or none, and whatever the file holds
C28_EmptyIdIsBadRequest ==
    [][(last'.op \in ByIdOps /\ last'.args.id = JStr(<<>>))
         => /\ ~last'.out.ok
            /\ last'.out.err.exc = "BadRequestError"
            /\ last'.out.err.code = "BAD_REQUEST"
            /\ last'.io = <<>>
            /\ cache' = cache]_vars

\* export_markdown with an empty id was refused although the cache file is
\* not JSON and no snapshot had been loaded
C28_Witness ==
    /\ last.op = "export_markdown" /\ last.args.id = JStr(<<>>)
    /\ ~last.out.ok /\ last.out.err.code = "BAD_REQUEST" /\ last.io = <<>>
    /\ file = FileNotJson /\ cache = NoCache

(***************************************************************************)
(* C29 - records without a start and the time bounds.                      *)
(***************************************************************************)
\* the records of the call that have an empty start_ts
Undated == {i \in 1..Len(CallRecords) : CallRecords[i].start_ts = JStr(<<>>)}
\* the record is among the results
Appears(id) == \E k \in 1..Len(last.out.val.items) : last.out.val.items[k].id = id

\* C29: in list_meetings and search_meetings a record with an empty start
\* timestamp is excluded by every lower bound that normalizes and by no
\* upper bound: with bounds as the only filter it is among the results
\* exactly when the lower bound is missing or does not normalize
C29_UndatedAndBounds ==
    BoundsOnly =>
        \A i \in Undated : Appears(CallRecords[i].id) <=> ~Normalizable(LowerBound)

\* search_meetings bounded from above only, at f1's start: the undated f3
\* is returned, the later f2 is not
C29_Witness ==
    /\ BoundsOnly
    /\ last.op = "search_meetings"
    /\ file = FileF
    /\ LowerBound = JNull /\ UpperBound = JStr(s_ts1)
    /\ Undated # {}
    /\ Appears(JStr(s_f3)) /\ ~Appears(JStr(s_f2))
=============================================================================
